---- MODULE Spec2Model ----
(***************************************************************************)
(* Gateway of the car-rental platform: the circuit breaker and its         *)
(* registry (gateway_service/circuit_breaker.py), the handlers of          *)
(* gateway_service/main.py (create_rental, cancel_rental, finish_rental,   *)
(* get_cars, get_user_rentals, get_rental) and the retry queue             *)
(* (gateway_service/retry_queue.py).                                       *)
(***************************************************************************)
EXTENDS Integers, Sequences, FiniteSets, TLC

VARIABLES
    \* ---- CircuitBreaker ----
    failure_threshold,   \* CircuitBreaker.failure_threshold
    timeout,             \* CircuitBreaker.timeout
    stats,               \* CircuitBreaker.stats (CircuitBreakerStats)
    now,                 \* the value time.time() returns
    calls,               \* the activations of CircuitBreaker.call in flight, by caller
    last,                \* history: how the call that ended last was answered
    consecutive_raises,  \* history: actions that raised since the last action that returned
    call_count,          \* history: calls of CircuitBreaker.call begun so far
    \* ---- gateway: create_rental ----
    car_info_cache,      \* main.car_info_cache
    cr,                  \* the activation of create_rental: its position and locals
    issued,              \* history: the upstream requests of this activation, in order
    response,            \* what the activation answered to the client
    request_count,       \* history: create_rental requests received so far
    \* ---- RetryQueue ----
    queue,               \* RetryQueue.queue: the task ids waiting, oldest first
    tasks,               \* RetryQueue.tasks: the keys of the task map
    task,                \* the RetryTask objects made so far, by task_id
    is_running,          \* RetryQueue.is_running
    workers,             \* the process_queue coroutines made by start()
    invocations,         \* history: how often each task's func was invoked
    succeeded,           \* history: the tasks whose func returned normally
    deletions,           \* history: how often each task was deleted from the task map
    stopped,             \* history: stop() was called and start() was not called since
    answered,            \* history: the upstream's answer to the last request of each task's func
    \* ---- gateway: the breaker registry and the other handlers ----
    breakers,            \* CircuitBreakerManager.breakers: name -> CircuitBreaker
    got,                 \* history: the breaker the last get_breaker returned
    hd,                  \* the activation of a handler other than create_rental
    body,                \* the JSON body the activation answered with
    fetched,             \* history: the car descriptor of the last 200 car fetch, by carUid
    \* ---- rental_service and payment_service ----
    rental_status,       \* Rental.status of the rows of the Rental service, by rentalUid
    payment_status       \* Payment.status of the rows of the Payment service, by paymentUid

breakerVars == <<failure_threshold, timeout, stats, now, calls, last,
                 consecutive_raises, call_count>>

sagaVars == <<car_info_cache, cr, issued, response, request_count>>

retryVars == <<queue, tasks, task, is_running, workers,
               invocations, succeeded, deletions, stopped, answered>>

gatewayVars == <<breakers, got, hd, body, fetched>>

backendVars == <<rental_status, payment_status>>

vars == <<breakerVars, sagaVars, retryVars, gatewayVars, backendVars>>

(***************************************************************************)
(* Bounds of the model                                                     *)
(***************************************************************************)
MaxThreshold == 2
MaxTimeout == 2
MaxTime == 4
MaxCallers == 2
MaxCalls == 4
MaxRequests == 2
MaxPrice == 2
MaxTasks == 2
MaxWorkers == 2
MaxReads == 2

(***************************************************************************)
(* RetryQueue                                                              *)
(***************************************************************************)
\* RetryTask.max_retries: int = 5
MaxRetries == 5

TaskIds == 1..MaxTasks
WorkerIds == 1..MaxWorkers

\* Mutant of retry_release_car: the closure cancels a payment.
retry_release_car_refunds(handler, car_uid) ==
    [name |-> "retry_cancel_payment", of |-> handler, carUid |-> "", paymentUid |-> car_uid]

\* The funcs handed to add_task: the closures retry_release_car (cancel_rental,
\* finish_rental) and retry_cancel_payment (cancel_rental) of main.py, with the
\* rental's carUid / paymentUid they close over.
retry_release_car(handler, car_uid) ==
    [name |-> "retry_release_car", of |-> handler, carUid |-> car_uid, paymentUid |-> ""]
retry_cancel_payment(handler, payment_uid) ==
    [name |-> "retry_cancel_payment", of |-> handler, carUid |-> "", paymentUid |-> payment_uid]

\* RetryTask(task_id, func, args, kwargs)
RetryTask(func) == [func |-> func, max_retries |-> MaxRetries, retry_count |-> 0]

NoWorker == [pc |-> "none", task_id |-> 0]

\* The func of the task has sent no request yet.
NoAnswer == [raised |-> FALSE, status |-> 0]

\* RetryQueue.__init__; retry_queue = RetryQueue()
InitRetryQueue ==
    /\ queue = <<>>
    /\ tasks = {}
    /\ task = <<>>
    /\ is_running = FALSE
    /\ workers = [w \in WorkerIds |-> NoWorker]
    /\ invocations = [t \in TaskIds |-> 0]
    /\ succeeded = {}
    /\ deletions = [t \in TaskIds |-> 0]
    /\ stopped = FALSE
    /\ answered = [t \in TaskIds |-> NoAnswer]

\* Mutant of submit: the id of the new task is queued twice.
submit_twice(func) ==
    LET task_id == Cardinality(DOMAIN task) + 1 IN
    /\ task_id \in TaskIds
    /\ task' = [t \in DOMAIN task \cup {task_id} |->
                   IF t = task_id THEN RetryTask(func) ELSE task[t]]
    /\ tasks' = tasks \cup {task_id}
    /\ queue' = Append(Append(queue, task_id), task_id)

\* RetryQueue.add_task as the caller sees it: the new task_id (uuid4) is an id
\* not used before; the task is stored and its id queued.  `await queue.put` on
\* the unbounded queue does not suspend.
submit(func) ==
    LET task_id == Cardinality(DOMAIN task) + 1 IN
    /\ task_id \in TaskIds
    /\ task' = [t \in DOMAIN task \cup {task_id} |->
                   IF t = task_id THEN RetryTask(func) ELSE task[t]]
    /\ tasks' = tasks \cup {task_id}
    /\ queue' = Append(queue, task_id)

\* RetryQueue.add_task called on its own
add_task(func) ==
    /\ submit(func)
    /\ UNCHANGED <<is_running, workers, invocations, succeeded, deletions, stopped, answered>>
    /\ UNCHANGED <<breakerVars, sagaVars, gatewayVars, backendVars>>

\* RetryQueue.start: asyncio.create_task(self.process_queue()) unless is_running.
start ==
    /\ ~is_running
    /\ \E w \in WorkerIds :
        /\ workers[w].pc = "none"
        /\ \A v \in WorkerIds : v < w => workers[v].pc # "none"
        /\ workers' = [workers EXCEPT ![w].pc = "created"]
    /\ stopped' = FALSE
    /\ UNCHANGED <<queue, tasks, task, is_running, invocations, succeeded, deletions, answered>>
    /\ UNCHANGED <<breakerVars, sagaVars, gatewayVars, backendVars>>

\* RetryQueue.stop: the flag is cleared, whether or not a worker has set it.
stop ==
    /\ is_running' = FALSE
    /\ stopped' = TRUE
    /\ UNCHANGED <<queue, tasks, task, workers, invocations, succeeded, deletions, answered>>
    /\ UNCHANGED <<breakerVars, sagaVars, gatewayVars, backendVars>>

\* `while self.is_running`: the worker waits on the queue again or leaves the loop.
loop(w, running) ==
    [workers EXCEPT ![w] = [pc |-> IF running THEN "get" ELSE "exited", task_id |-> 0]]

\* del self.tasks[task_id]
delete_task(task_id) ==
    /\ tasks' = tasks \ {task_id}
    /\ deletions' = [deletions EXCEPT ![task_id] = @ + 1]

\* process_queue, lines 43-46: the coroutine runs for the first time.
process_queue_begin(w) ==
    /\ workers[w].pc = "created"
    /\ is_running' = TRUE
    /\ workers' = loop(w, TRUE)
    /\ UNCHANGED <<queue, tasks, task, invocations, succeeded, deletions, stopped, answered>>
    /\ UNCHANGED <<breakerVars, sagaVars, gatewayVars, backendVars>>

\* process_queue, lines 48-62: queue.get() delivers a task id and the func is invoked.
queue_get(w) ==
    /\ workers[w].pc = "get"
    /\ queue # <<>>
    /\ LET task_id == Head(queue) IN
        /\ queue' = Tail(queue)
        /\ IF task_id \notin tasks
             THEN /\ workers' = loop(w, is_running)
                  /\ UNCHANGED invocations
             ELSE /\ workers' = [workers EXCEPT ![w] = [pc |-> "func", task_id |-> task_id]]
                  /\ invocations' = [invocations EXCEPT ![task_id] = @ + 1]
    /\ UNCHANGED <<tasks, task, is_running, succeeded, deletions, stopped, answered>>
    /\ UNCHANGED <<breakerVars, sagaVars, gatewayVars, backendVars>>

\* process_queue, lines 48-51 and 80-81: wait_for times out on the empty queue.
queue_timeout(w) ==
    /\ workers[w].pc = "get"
    /\ queue = <<>>
    /\ workers' = loop(w, is_running)
    /\ UNCHANGED <<queue, tasks, task, is_running, invocations, succeeded, deletions, stopped, answered>>
    /\ UNCHANGED <<breakerVars, sagaVars, gatewayVars, backendVars>>

\* process_queue, lines 58-65: the func returned; the task is deleted.
on_return(w) ==
    /\ workers[w].pc = "func"
    /\ delete_task(workers[w].task_id)
    /\ succeeded' = succeeded \cup {workers[w].task_id}
    /\ workers' = loop(w, is_running)
    /\ UNCHANGED <<queue, task, is_running, invocations, stopped>>
    /\ UNCHANGED <<breakerVars, sagaVars, gatewayVars>>

\* The func of the task, whatever it is, returns.
func_returns(w) ==
    /\ on_return(w)
    /\ UNCHANGED <<answered, backendVars>>

\* Mutant of should_retry: <= instead of <.
should_retry_once_more(t) == t.retry_count <= t.max_retries

\* line 73: task.retry_count < task.max_retries
should_retry(t) == t.retry_count < t.max_retries

\* process_queue, lines 67-78: the func raised.
on_raise(w) ==
    /\ workers[w].pc = "func"
    /\ LET task_id == workers[w].task_id
           t == [task[task_id] EXCEPT !.retry_count = @ + 1]
       IN /\ task' = [task EXCEPT ![task_id] = t]
          /\ IF should_retry(t)
               THEN /\ workers' = [workers EXCEPT ![w].pc = "sleep"]
                    /\ UNCHANGED <<tasks, deletions>>
               ELSE /\ delete_task(task_id)
                    /\ workers' = loop(w, is_running)
    /\ UNCHANGED <<queue, is_running, invocations, succeeded, stopped>>
    /\ UNCHANGED <<breakerVars, sagaVars, gatewayVars>>

\* The func of the task, whatever it is, raises.
func_raises(w) ==
    /\ on_raise(w)
    /\ UNCHANGED <<answered, backendVars>>

\* Mutant of put: the task id is dropped.
put_dropped(task_id) == queue

\* line 75: await self.queue.put(task_id) on the unbounded queue
put(task_id) == Append(queue, task_id)

\* process_queue, lines 74-75: the sleep is over and the task id is queued again.
sleep_done(w) ==
    /\ workers[w].pc = "sleep"
    /\ queue' = put(workers[w].task_id)
    /\ workers' = loop(w, is_running)
    /\ UNCHANGED <<tasks, task, is_running, invocations, succeeded, deletions, stopped, answered>>
    /\ UNCHANGED <<breakerVars, sagaVars, gatewayVars, backendVars>>

(***************************************************************************)
(* Gateway: create_rental (POST /api/v1/rental)                            *)
(***************************************************************************)
CarUids == {"U1", "U2"}
PaymentUids == {"P1", "P2"}
RentalUids == {"R1", "R2"}

\* The rows of the Rental and Payment services: rental_service create_rental
\* stores status="IN_PROGRESS", payment_service create_payment status="PAID".
InitBackend ==
    /\ rental_status = [r \in RentalUids |-> "IN_PROGRESS"]
    /\ payment_status = [p \in PaymentUids |-> "PAID"]
Prices == 0..MaxPrice

\* dateFrom / dateTo of the request: "YYYY-MM-DD" strings, here <<YYYY, MM, DD>>.
\* 2023-02-29 is no date: datetime.fromisoformat raises ValueError on it.
DateStrings == {<<2023, 12, 31>>, <<2024, 2, 28>>, <<2024, 3, 1>>, <<2023, 2, 29>>}

\* An upstream answer: a response with a status code, or a transport error
\* (httpx.RequestError: timeout, connection failure).
Status(n) == [raised |-> FALSE, status |-> n]
RequestError == [raised |-> TRUE, status |-> 0]

CarAnswers == {Status(200), Status(404), RequestError}
PaymentAnswers == {Status(200), Status(500), RequestError}
AvailabilityAnswers == {Status(200), Status(500), RequestError}
RentalAnswers == {Status(200), Status(500), RequestError}
CancelPaymentAnswers == {Status(204), Status(404), RequestError}

\* The registration numbers a car record may carry over time.
RegistrationNumbers == {"LO777X799", "AA001A177"}

\* cars_service get_car: the CarResponse for car_uid (the versions of the record).
CarResponses(car_uid) ==
    {[carUid |-> car_uid, brand |-> "Mercedes Benz", model |-> "GLA 250",
      registrationNumber |-> r, price |-> p] : r \in RegistrationNumbers, p \in Prices}

\* The dict stored in car_info_cache for fetched car_data.
CarInfoOf(car_data) ==
    [carUid |-> car_data.carUid, brand |-> car_data.brand, model |-> car_data.model,
     registrationNumber |-> car_data.registrationNumber]

\* car_info_cache.get(uid) is None
NoCarInfo == [carUid |-> "", brand |-> "", model |-> "", registrationNumber |-> ""]

\* datetime.fromisoformat / the datetime arithmetic of lines 120-122
IsLeap(y) == y % 4 = 0 /\ (y % 100 # 0 \/ y % 400 = 0)

DaysInMonth(y, m) ==
    IF m = 2 THEN (IF IsLeap(y) THEN 29 ELSE 28)
    ELSE IF m \in {4, 6, 9, 11} THEN 30 ELSE 31

\* datetime.fromisoformat accepts the string
fromisoformat_ok(d) ==
    /\ Len(d) = 3
    /\ d[1] \in 1..9999
    /\ d[2] \in 1..12
    /\ d[3] \in 1..DaysInMonth(d[1], d[2])

DaysBeforeYear(y) ==
    (y - 1) * 365 + ((y - 1) \div 4) - ((y - 1) \div 100) + ((y - 1) \div 400)

RECURSIVE DaysBeforeMonth(_, _)
DaysBeforeMonth(y, m) ==
    IF m <= 1 THEN 0 ELSE DaysBeforeMonth(y, m - 1) + DaysInMonth(y, m - 1)

\* the day number of the datetime fromisoformat returns
toordinal(d) == DaysBeforeYear(d[1]) + DaysBeforeMonth(d[1], d[2]) + d[3]

\* (a - b).days
timedelta_days(a, b) == toordinal(a) - toordinal(b)

abs(n) == IF n < 0 THEN -n ELSE n

\* Mutant of total_price: the sign of the difference is kept.
total_price_signed(date_from, date_to, price) ==
    timedelta_days(date_to, date_from) * price

\* lines 120-123: days = abs((date_to - date_from).days); total_price = days * price
total_price(date_from, date_to, price) ==
    abs(timedelta_days(date_to, date_from)) * price

\* The requests the gateway sends
GetCar(car_uid, res) ==
    [op |-> "GET /cars/{carUid}", carUid |-> car_uid, res |-> res]
PostPayment(price, res) ==
    [op |-> "POST /payment", price |-> price, res |-> res]
PatchAvailability(car_uid, available, res) ==
    [op |-> "PATCH /cars/{carUid}/availability", carUid |-> car_uid,
     available |-> available, res |-> res]
PostRental(username, payment_uid, car_uid, date_from, date_to, res) ==
    [op |-> "POST /rental", username |-> username, paymentUid |-> payment_uid,
     carUid |-> car_uid, dateFrom |-> date_from, dateTo |-> date_to, res |-> res]
DeletePayment(payment_uid, res) ==
    [op |-> "DELETE /payment/{paymentUid}", paymentUid |-> payment_uid, res |-> res]

NoResponse == [status |-> 0, message |-> ""]

\* Mutant of ServiceUnavailable: the transport error falls to the generic handler.
ServiceUnavailable_generic ==
    [status |-> 500, message |-> "Internal server error"]

\* lines 179-183: JSONResponse(503, {"message": "Payment Service unavailable"})
ServiceUnavailable ==
    [status |-> 503, message |-> "Payment Service unavailable"]

\* raise HTTPException(status_code, detail)
HTTPException(status_code, detail) == [status |-> status_code, message |-> detail]

\* A handler other than create_rental: its name, its position, the rental_uid or
\* the page of the request, the rentals it works on, the index of the rental it
\* is at and the car block it has built for that rental; `mark` is
\* history: the number of retry tasks made before the activation began.
IdleHandler ==
    [handler |-> "", pc |-> "idle", rental_uid |-> "", page |-> 0, rentals |-> <<>>,
     i |-> 0, car |-> NoCarInfo, mark |-> 0]

\* No JSON body (204, or an error answer whose message is in `response`).
NoBody ==
    [kind |-> "none", page |-> 0, pageSize |-> 0, totalElements |-> 0, items |-> <<>>]

IdleCreate ==
    [pc |-> "idle", car_uid |-> "", date_from |-> <<>>, date_to |-> <<>>,
     price |-> 0, total_price |-> 0, payment_uid |-> ""]

\* The activation ends with this answer to the client.
Respond(answer) ==
    /\ response' = answer
    /\ cr' = [cr EXCEPT !.pc = "responded"]

\* The activation goes on to its next await.
Goto(pc) ==
    /\ cr' = [cr EXCEPT !.pc = pc]
    /\ UNCHANGED response

\* POST /api/v1/rental arrives (lines 95-103): the car is requested.
create_rental(car_uid, date_from, date_to) ==
    /\ cr.pc \in {"idle", "responded"}
    /\ hd.pc \in {"idle", "responded"}
    /\ request_count < MaxRequests
    /\ request_count' = request_count + 1
    /\ cr' = [IdleCreate EXCEPT !.pc = "get_car", !.car_uid = car_uid,
                                !.date_from = date_from, !.date_to = date_to]
    /\ issued' = <<>>
    /\ response' = NoResponse
    /\ hd' = IdleHandler
    /\ body' = NoBody
    /\ UNCHANGED <<car_info_cache, breakers, got, fetched>>
    /\ UNCHANGED <<breakerVars, retryVars, backendVars>>

\* Mutant of car_fetched_ok: every response of the car fetch is taken as the car.
car_fetched_ok_any(res) == ~res.raised

\* line 106: car_response.status_code != 200 raises "Car not found"
car_fetched_ok(res) == res.status = 200

\* lines 103-123: the car fetch answers.
car_answer(res, car_data) ==
    /\ cr.pc = "get_car"
    /\ issued' = Append(issued, GetCar(cr.car_uid, res))
    /\ IF res.raised
         THEN Respond(ServiceUnavailable) /\ UNCHANGED <<car_info_cache, fetched>>
       ELSE IF ~car_fetched_ok(res)
         THEN Respond(HTTPException(404, "Car not found")) /\ UNCHANGED <<car_info_cache, fetched>>
       ELSE /\ car_info_cache' = [car_info_cache EXCEPT ![cr.car_uid] = CarInfoOf(car_data)]
            /\ fetched' = [fetched EXCEPT ![cr.car_uid] = CarInfoOf(car_data)]
            /\ IF fromisoformat_ok(cr.date_from) /\ fromisoformat_ok(cr.date_to)
                 THEN /\ cr' = [cr EXCEPT !.pc = "post_payment",
                                         !.price = car_data.price,
                                         !.total_price = total_price(cr.date_from, cr.date_to,
                                                                     car_data.price)]
                      /\ UNCHANGED response
                 ELSE \* ValueError, caught at lines 186-188
                      Respond(HTTPException(500, "Internal server error"))
    /\ UNCHANGED request_count
    /\ UNCHANGED <<breakerVars, retryVars, breakers, got, hd, body, backendVars>>

\* lines 126-133: the payment POST answers.
payment_answer(res, payment_uid) ==
    /\ cr.pc = "post_payment"
    /\ issued' = Append(issued, PostPayment(cr.total_price, res))
    /\ IF res.raised
         THEN Respond(ServiceUnavailable)
       ELSE IF res.status # 200
         THEN Respond(HTTPException(500, "Payment service error"))
       ELSE /\ cr' = [cr EXCEPT !.pc = "reserve_car", !.payment_uid = payment_uid]
            /\ UNCHANGED response
    /\ UNCHANGED <<car_info_cache, request_count>>
    /\ UNCHANGED <<breakerVars, retryVars, gatewayVars, backendVars>>

\* Mutant of reserve_rejected: the rejected reservation fails at once, without
\* the rollback of the payment.
reserve_rejected_no_rollback ==
    Respond(HTTPException(500, "Failed to reserve car"))

\* lines 140-142: the reservation was rejected; the payment is rolled back first.
reserve_rejected == Goto("rollback_payment")

\* lines 136-142: the availability PATCH (available=false) answers.
reserve_answer(res) ==
    /\ cr.pc = "reserve_car"
    /\ issued' = Append(issued, PatchAvailability(cr.car_uid, FALSE, res))
    /\ IF res.raised
         THEN Respond(ServiceUnavailable)
       ELSE IF res.status # 200
         THEN reserve_rejected
       ELSE Goto("post_rental")
    /\ UNCHANGED <<car_info_cache, request_count>>
    /\ UNCHANGED <<breakerVars, retryVars, gatewayVars, backendVars>>

\* lines 142-143: the DELETE of the payment answers; "Failed to reserve car".
rollback_payment_answer(res) ==
    /\ cr.pc = "rollback_payment"
    /\ issued' = Append(issued, DeletePayment(cr.payment_uid, res))
    /\ IF res.raised
         THEN Respond(ServiceUnavailable)
         ELSE Respond(HTTPException(500, "Failed to reserve car"))
    /\ UNCHANGED <<car_info_cache, request_count>>
    /\ UNCHANGED <<breakerVars, retryVars, gatewayVars, backendVars>>

\* lines 146-178: the rental POST answers.
rental_answer(res) ==
    /\ cr.pc = "post_rental"
    /\ issued' = Append(issued, PostRental("user", cr.payment_uid, cr.car_uid,
                                           cr.date_from, cr.date_to, res))
    /\ IF res.raised
         THEN Respond(ServiceUnavailable)
       ELSE IF res.status # 200
         THEN Goto("release_car")
       ELSE Respond([status |-> 200, message |-> "CreateRentalResponse"])
    /\ UNCHANGED <<car_info_cache, request_count>>
    /\ UNCHANGED <<breakerVars, retryVars, gatewayVars, backendVars>>

\* lines 158-161: the availability PATCH (available=true) of the rollback answers.
release_answer(res) ==
    /\ cr.pc = "release_car"
    /\ issued' = Append(issued, PatchAvailability(cr.car_uid, TRUE, res))
    /\ IF res.raised
         THEN Respond(ServiceUnavailable)
         ELSE Goto("refund_payment")
    /\ UNCHANGED <<car_info_cache, request_count>>
    /\ UNCHANGED <<breakerVars, retryVars, gatewayVars, backendVars>>

\* lines 162-163: the DELETE of the payment answers; "Rental service error".
refund_answer(res) ==
    /\ cr.pc = "refund_payment"
    /\ issued' = Append(issued, DeletePayment(cr.payment_uid, res))
    /\ IF res.raised
         THEN Respond(ServiceUnavailable)
         ELSE Respond(HTTPException(500, "Rental service error"))
    /\ UNCHANGED <<car_info_cache, request_count>>
    /\ UNCHANGED <<breakerVars, retryVars, gatewayVars, backendVars>>

\* main.py lines 26-30: the state of the gateway before any request
InitGateway ==
    /\ InitRetryQueue
    /\ InitBackend
    /\ car_info_cache = [u \in CarUids |-> NoCarInfo]
    /\ cr = IdleCreate
    /\ issued = <<>>
    /\ response = NoResponse
    /\ request_count = 0
    /\ breakers = <<>>
    /\ got = 0
    /\ hd = IdleHandler
    /\ body = NoBody
    /\ fetched = [u \in CarUids |-> NoCarInfo]


(***************************************************************************)
(* CircuitBreaker                                                          *)
(***************************************************************************)
\* last_failure_time: Optional[float] = None
NoneTime == -1

Callers == 1..MaxCallers

\* CircuitBreakerStats()
CircuitBreakerStats ==
    [failures |-> 0, success |-> 0, last_failure_time |-> NoneTime, state |-> "CLOSED"]

IdleCall ==
    [pc |-> "idle", fallback |-> FALSE, probe |-> FALSE]

\* What a finished call did: whether it ran the action, whether it ran it as the
\* HALF_OPEN probe, and what the caller got.
Answer(ran, probe, outcome) ==
    [ran |-> ran, probe |-> probe, outcome |-> outcome]

\* Mutant of _should_attempt_reset: the elapsed time is not compared with timeout.
_should_attempt_reset_no_timeout ==
    stats.last_failure_time # NoneTime

\* CircuitBreaker._should_attempt_reset
_should_attempt_reset ==
    IF stats.last_failure_time = NoneTime
        THEN FALSE
        ELSE (now - stats.last_failure_time) >= timeout

\* Mutant of _on_success: the counter is reset but HALF_OPEN is not closed.
_on_success_keeps_state(s) ==
    [s EXCEPT !.failures = 0]

\* CircuitBreaker._on_success
_on_success(s) ==
    [s EXCEPT !.failures = 0,
              !.state = IF s.state = "HALF_OPEN" THEN "CLOSED" ELSE s.state]

\* Mutant of _on_failure: the threshold is compared with > instead of >=.
_on_failure_off_by_one(s) ==
    LET f == s.failures + 1 IN
    [s EXCEPT !.failures = f,
              !.last_failure_time = now,
              !.state = IF f > failure_threshold THEN "OPEN" ELSE s.state]

\* Mutant of _on_failure: last_failure_time is not written.
_on_failure_no_time(s) ==
    LET f == s.failures + 1 IN
    [s EXCEPT !.failures = f,
              !.state = IF f >= failure_threshold THEN "OPEN" ELSE s.state]

\* CircuitBreaker._on_failure
_on_failure(s) ==
    LET f == s.failures + 1 IN
    [s EXCEPT !.failures = f,
              !.last_failure_time = now,
              !.state = IF f >= failure_threshold THEN "OPEN" ELSE s.state]

\* CircuitBreaker.call, lines 29-37: the admission of the call.  The result is
\* the new stats and whether the action is to be run.
admit(s) ==
    IF s.state = "OPEN"
        THEN IF _should_attempt_reset
                 THEN [stats |-> [s EXCEPT !.state = "HALF_OPEN"], run |-> TRUE]
                 ELSE [stats |-> s, run |-> FALSE]
        ELSE [stats |-> s, run |-> TRUE]

\* CircuitBreaker.call up to the first await: either the call is short-circuited
\* (fallback or "Circuit breaker ... is OPEN") or the action is started.
call_enter(c, fb) ==
    /\ calls[c].pc = "idle"
    /\ call_count < MaxCalls
    /\ LET a == admit(stats) IN
        /\ stats' = a.stats
        /\ IF a.run
               THEN /\ calls' = [calls EXCEPT ![c] =
                          [pc |-> "action", fallback |-> fb,
                           probe |-> (stats.state = "OPEN")]]
                    /\ UNCHANGED last
               ELSE /\ last' = Answer(FALSE, FALSE,
                                      IF fb THEN "fallback" ELSE "BreakerOpen")
                    /\ UNCHANGED calls
    /\ call_count' = call_count + 1
    /\ UNCHANGED <<failure_threshold, timeout, now, consecutive_raises>>
    /\ UNCHANGED <<sagaVars, retryVars, gatewayVars, backendVars>>

\* CircuitBreaker.call, lines 41-45: the action returned normally.
action_returns(c) ==
    /\ calls[c].pc = "action"
    /\ stats' = _on_success(stats)
    /\ calls' = [calls EXCEPT ![c] = IdleCall]
    /\ last' = Answer(TRUE, calls[c].probe, "result")
    /\ consecutive_raises' = 0
    /\ UNCHANGED <<failure_threshold, timeout, now, call_count>>
    /\ UNCHANGED <<sagaVars, retryVars, gatewayVars, backendVars>>

\* CircuitBreaker.call, lines 46-52: the action raised.
action_raises(c) ==
    /\ calls[c].pc = "action"
    /\ stats' = _on_failure(stats)
    /\ calls' = [calls EXCEPT ![c] = IdleCall]
    /\ last' = Answer(TRUE, calls[c].probe,
                      IF calls[c].fallback THEN "fallback" ELSE "raised")
    /\ consecutive_raises' = consecutive_raises + 1
    /\ UNCHANGED <<failure_threshold, timeout, now, call_count>>
    /\ UNCHANGED <<sagaVars, retryVars, gatewayVars, backendVars>>

\* time.time() advances
Tick ==
    /\ now < MaxTime
    /\ now' = now + 1
    /\ UNCHANGED <<failure_threshold, timeout, stats, calls, last,
                   consecutive_raises, call_count>>
    /\ UNCHANGED <<sagaVars, retryVars, gatewayVars, backendVars>>

NoCallInFlight == \A c \in Callers : calls[c].pc = "idle"

\* CircuitBreaker.__init__
InitBreaker ==
    /\ InitGateway
    /\ failure_threshold \in 0..MaxThreshold
    /\ timeout \in 0..MaxTimeout
    /\ stats = CircuitBreakerStats
    /\ now = 0
    /\ calls = [c \in Callers |-> IdleCall]
    /\ last = Answer(FALSE, FALSE, "none")
    /\ consecutive_raises = 0
    /\ call_count = 0

\* One breaker used by calls that do not overlap.
NextBreaker ==
    \/ \E c \in Callers, fb \in BOOLEAN : NoCallInFlight /\ call_enter(c, fb)
    \/ \E c \in Callers : action_returns(c)
    \/ \E c \in Callers : action_raises(c)
    \/ Tick

SpecBreaker == InitBreaker /\ [][NextBreaker]_vars

\* One breaker shared by handlers that interleave at the awaited action.
NextBreakerConc ==
    \/ \E c \in Callers, fb \in BOOLEAN : call_enter(c, fb)
    \/ \E c \in Callers : action_returns(c)
    \/ \E c \in Callers : action_raises(c)
    \/ Tick

SpecBreakerConc == InitBreaker /\ [][NextBreakerConc]_vars

(***************************************************************************)
(* The create_rental saga on its own                                      *)
(***************************************************************************)
\* The breaker as the gateway makes it: get_breaker(name) with the defaults.
InitService ==
    /\ InitGateway
    /\ failure_threshold = 5
    /\ timeout = 60
    /\ stats = CircuitBreakerStats
    /\ now = 0
    /\ calls = [c \in Callers |-> IdleCall]
    /\ last = Answer(FALSE, FALSE, "none")
    /\ consecutive_raises = 0
    /\ call_count = 0

NextCreate ==
    \/ \E u \in CarUids, df \in DateStrings, dt \in DateStrings : create_rental(u, df, dt)
    \/ \E res \in CarAnswers : \E car_data \in CarResponses(cr.car_uid) : car_answer(res, car_data)
    \/ \E res \in PaymentAnswers, p \in PaymentUids : payment_answer(res, p)
    \/ \E res \in AvailabilityAnswers : reserve_answer(res)
    \/ \E res \in CancelPaymentAnswers : rollback_payment_answer(res)
    \/ \E res \in RentalAnswers : rental_answer(res)
    \/ \E res \in AvailabilityAnswers : release_answer(res)
    \/ \E res \in CancelPaymentAnswers : refund_answer(res)

SpecCreate == InitService /\ [][NextCreate]_vars

(***************************************************************************)
(* The retry queue on its own                                              *)
(***************************************************************************)
NextRetry ==
    \/ add_task(retry_release_car("cancel_rental", "U1"))
    \/ start
    \/ stop
    \/ \E w \in WorkerIds : process_queue_begin(w)
    \/ \E w \in WorkerIds : queue_get(w)
    \/ \E w \in WorkerIds : queue_timeout(w)
    \/ \E w \in WorkerIds : func_returns(w)
    \/ \E w \in WorkerIds : func_raises(w)
    \/ \E w \in WorkerIds : sleep_done(w)

SpecRetry == InitService /\ [][NextRetry]_vars

\* main.py lines 33-36: startup_event starts the retry queue, once.
startup_event ==
    /\ \A w \in WorkerIds : workers[w].pc = "none"
    /\ start

Started == \E w \in WorkerIds : workers[w].pc # "none"

\* One iteration step of the worker coroutine w.
Worker(w) ==
    \/ process_queue_begin(w)
    \/ queue_get(w)
    \/ queue_timeout(w)
    \/ func_returns(w)
    \/ func_raises(w)
    \/ sleep_done(w)

(***************************************************************************)
(* The retry queue as the gateway runs it: started once, by startup_event  *)
(***************************************************************************)
NextWorker ==
    \/ add_task(retry_release_car("cancel_rental", "U1"))
    \/ startup_event
    \/ stop
    \/ \E w \in WorkerIds : process_queue_begin(w)
    \/ \E w \in WorkerIds : queue_get(w)
    \/ \E w \in WorkerIds : queue_timeout(w)
    \/ \E w \in WorkerIds : func_returns(w)
    \/ \E w \in WorkerIds : func_raises(w)
    \/ \E w \in WorkerIds : sleep_done(w)

SpecWorker == InitService /\ [][NextWorker]_vars

\* The event loop runs every coroutine that is ready: a worker that can take a
\* step (the func it awaits ends, its sleep or its wait on the queue is over)
\* takes one.
SpecWorkerFair == SpecWorker /\ \A w \in WorkerIds : WF_vars(Worker(w))

(***************************************************************************)
(* cancel_rental (DELETE /api/v1/rental/{rentalUid}) and                   *)
(* finish_rental (POST /api/v1/rental/{rentalUid}/finish)                  *)
(***************************************************************************)
\* rental_service get_rental: the RentalResponse for rental_uid.
RentalOf(rental_uid) ==
    [rentalUid |-> rental_uid,
     carUid |-> IF rental_uid = "R1" THEN "U1" ELSE "U2",
     paymentUid |-> IF rental_uid = "R1" THEN "P1" ELSE "P2",
     status |-> rental_status[rental_uid]]

RentalLookupAnswers == {Status(200), Status(404), Status(500), RequestError}
CancelAnswers == {Status(204), Status(404), RequestError}
FinishAnswers == {Status(204), Status(404), RequestError}
\* The answers to a compensation call: the PATCH of the availability (200 when
\* done) and the DELETE of the payment (204 when done).
ReleaseAnswers == {Status(200), Status(500), RequestError}
RefundAnswers == {Status(204), Status(500), RequestError}

GetRental(rental_uid, res) ==
    [op |-> "GET /rental/{rentalUid}", rentalUid |-> rental_uid, res |-> res]
DeleteRental(rental_uid, res) ==
    [op |-> "DELETE /rental/{rentalUid}", rentalUid |-> rental_uid, res |-> res]
PostFinish(rental_uid, res) ==
    [op |-> "POST /rental/{rentalUid}/finish", rentalUid |-> rental_uid, res |-> res]

\* An exception no handler catches: Starlette answers 500.
InternalServerError == [status |-> 500, message |-> "Internal Server Error"]

\* status_code=204 of the route: the handler returned None.
NoContent == [status |-> 204, message |-> ""]

\* The activation ends with this answer to the client.
Reply(answer) ==
    /\ response' = answer
    /\ hd' = [hd EXCEPT !.pc = "responded"]

\* A request arrives while no handler is active: the locals of the new
\* activation replace those of the activation that answered before.
Begin(handler, pc, rental_uid) ==
    /\ cr.pc \in {"idle", "responded"}
    /\ hd.pc \in {"idle", "responded"}
    /\ request_count < MaxRequests
    /\ request_count' = request_count + 1
    /\ hd' = [IdleHandler EXCEPT !.handler = handler, !.pc = pc, !.rental_uid = rental_uid,
                                 !.mark = Cardinality(DOMAIN task)]
    /\ cr' = IdleCreate
    /\ issued' = <<>>
    /\ response' = NoResponse
    /\ body' = NoBody

\* The rental lookup of cancel_rental and finish_rental (lines 384-393, 444-453):
\* the answer of the handler, or the rental when the lookup returned 200.
rental_lookup(res) ==
    IF res.raised THEN InternalServerError
    ELSE IF res.status = 404 THEN HTTPException(404, "Rental not found")
    ELSE IF res.status # 200 THEN HTTPException(res.status, "Rental service error")
    ELSE NoResponse

\* DELETE /api/v1/rental/{rentalUid} arrives (lines 377-387).
cancel_rental(rental_uid) ==
    /\ Begin("cancel_rental", "get_rental", rental_uid)
    /\ UNCHANGED <<car_info_cache, breakers, got, fetched>>
    /\ UNCHANGED <<breakerVars, retryVars, backendVars>>

\* lines 384-393: the rental lookup answers.
cancel_lookup_answer(res) ==
    /\ hd.handler = "cancel_rental" /\ hd.pc = "get_rental"
    /\ issued' = Append(issued, GetRental(hd.rental_uid, res))
    /\ IF rental_lookup(res) # NoResponse
         THEN Reply(rental_lookup(res))
         ELSE /\ hd' = [hd EXCEPT !.pc = "cancel", !.rentals = <<RentalOf(hd.rental_uid)>>]
              /\ UNCHANGED response
    /\ UNCHANGED <<car_info_cache, cr, request_count, breakers, got, body, fetched>>
    /\ UNCHANGED <<breakerVars, retryVars, backendVars>>

\* Mutant of cancelled: a DELETE that did not raise counts as done.
cancelled_any(res) == ~res.raised

\* lines 397-402: the DELETE of the rental raised or answered other than 204.
cancelled(res) == ~res.raised /\ res.status = 204

\* lines 396-402, 432-434: what cancel_rental does with the answer to the DELETE
\* of the rental.
delete_rental_answer(res) ==
    /\ hd.handler = "cancel_rental" /\ hd.pc = "cancel"
    /\ issued' = Append(issued, DeleteRental(hd.rental_uid, res))
    /\ IF cancelled(res)
         THEN hd' = [hd EXCEPT !.pc = "release_car"] /\ UNCHANGED response
         ELSE Reply(HTTPException(500, "Failed to cancel rental"))
    /\ UNCHANGED <<car_info_cache, cr, request_count, breakers, got, body, fetched>>
    /\ UNCHANGED <<breakerVars, retryVars>>

\* The DELETE of the rental answers; the rows of the upstreams are not followed.
cancel_answer(res) ==
    /\ delete_rental_answer(res)
    /\ UNCHANGED backendVars

\* Mutant of compensation_failed: nothing is handed to the retry queue.
compensation_failed_never(res) == FALSE

\* lines 405-418, 421-428, 465-478: `except Exception` around the compensation
\* call; the status code of the response is not looked at.
compensation_failed(res) == res.raised

\* lines 404-418: the PATCH that releases the car answers.
cancel_release_answer(res) ==
    /\ hd.handler = "cancel_rental" /\ hd.pc = "release_car"
    /\ issued' = Append(issued, PatchAvailability(hd.rentals[1].carUid, TRUE, res))
    /\ IF compensation_failed(res)
         THEN submit(retry_release_car("cancel_rental", hd.rentals[1].carUid))
         ELSE UNCHANGED <<task, tasks, queue>>
    /\ hd' = [hd EXCEPT !.pc = "cancel_payment"]
    /\ UNCHANGED <<is_running, workers, invocations, succeeded, deletions, stopped, answered>>
    /\ UNCHANGED <<car_info_cache, cr, response, request_count, breakers, got, body, fetched>>
    /\ UNCHANGED <<breakerVars, backendVars>>

\* lines 420-430: what cancel_rental does with the answer to the DELETE of the
\* payment; the handler returns None.
delete_payment_answer(res) ==
    /\ hd.handler = "cancel_rental" /\ hd.pc = "cancel_payment"
    /\ issued' = Append(issued, DeletePayment(hd.rentals[1].paymentUid, res))
    /\ IF compensation_failed(res)
         THEN submit(retry_cancel_payment("cancel_rental", hd.rentals[1].paymentUid))
         ELSE UNCHANGED <<task, tasks, queue>>
    /\ Reply(NoContent)
    /\ UNCHANGED <<is_running, workers, invocations, succeeded, deletions, stopped, answered>>
    /\ UNCHANGED <<car_info_cache, cr, request_count, breakers, got, body, fetched>>
    /\ UNCHANGED breakerVars

\* The DELETE of the payment answers; the rows of the upstreams are not followed.
cancel_payment_answer(res) ==
    /\ delete_payment_answer(res)
    /\ UNCHANGED backendVars

\* POST /api/v1/rental/{rentalUid}/finish arrives (lines 437-447).
finish_rental(rental_uid) ==
    /\ Begin("finish_rental", "get_rental", rental_uid)
    /\ UNCHANGED <<car_info_cache, breakers, got, fetched>>
    /\ UNCHANGED <<breakerVars, retryVars, backendVars>>

\* Mutant of finish_lookup_answer: the lookup is counted by the rental breaker.
finish_lookup_answer_guarded(res) ==
    /\ hd.handler = "finish_rental" /\ hd.pc = "get_rental"
    /\ issued' = Append(issued, GetRental(hd.rental_uid, res))
    /\ breakers' = [n \in DOMAIN breakers |->
                       IF n = "rental_service"
                           THEN [breakers[n] EXCEPT
                                    !.stats.failures = IF res = Status(200) THEN 0 ELSE @ + 1]
                           ELSE breakers[n]]
    /\ IF rental_lookup(res) # NoResponse
         THEN Reply(rental_lookup(res))
         ELSE /\ hd' = [hd EXCEPT !.pc = "finish", !.rentals = <<RentalOf(hd.rental_uid)>>]
              /\ UNCHANGED response
    /\ UNCHANGED <<car_info_cache, cr, request_count, got, body, fetched>>
    /\ UNCHANGED <<breakerVars, retryVars, backendVars>>

\* lines 444-453: the rental lookup answers.
finish_lookup_answer(res) ==
    /\ hd.handler = "finish_rental" /\ hd.pc = "get_rental"
    /\ issued' = Append(issued, GetRental(hd.rental_uid, res))
    /\ IF rental_lookup(res) # NoResponse
         THEN Reply(rental_lookup(res))
         ELSE /\ hd' = [hd EXCEPT !.pc = "finish", !.rentals = <<RentalOf(hd.rental_uid)>>]
              /\ UNCHANGED response
    /\ UNCHANGED <<car_info_cache, cr, request_count, breakers, got, body, fetched>>
    /\ UNCHANGED <<breakerVars, retryVars, backendVars>>

\* lines 456-462, 482-484: what finish_rental does with the answer to the POST
\* that finishes the rental.
post_finish_answer(res) ==
    /\ hd.handler = "finish_rental" /\ hd.pc = "finish"
    /\ issued' = Append(issued, PostFinish(hd.rental_uid, res))
    /\ IF ~res.raised /\ res.status = 204
         THEN hd' = [hd EXCEPT !.pc = "release_car"] /\ UNCHANGED response
         ELSE Reply(HTTPException(500, "Failed to finish rental"))
    /\ UNCHANGED <<car_info_cache, cr, request_count, breakers, got, body, fetched>>
    /\ UNCHANGED <<breakerVars, retryVars>>

\* The POST that finishes the rental answers; the rows of the upstreams are not
\* followed.
finish_answer(res) ==
    /\ post_finish_answer(res)
    /\ UNCHANGED backendVars

\* lines 464-480: the PATCH that releases the car answers; the handler returns None.
finish_release_answer(res) ==
    /\ hd.handler = "finish_rental" /\ hd.pc = "release_car"
    /\ issued' = Append(issued, PatchAvailability(hd.rentals[1].carUid, TRUE, res))
    /\ IF compensation_failed(res)
         THEN submit(retry_release_car("finish_rental", hd.rentals[1].carUid))
         ELSE UNCHANGED <<task, tasks, queue>>
    /\ Reply(NoContent)
    /\ UNCHANGED <<is_running, workers, invocations, succeeded, deletions, stopped, answered>>
    /\ UNCHANGED <<car_info_cache, cr, request_count, breakers, got, body, fetched>>
    /\ UNCHANGED <<breakerVars, backendVars>>

\* The request a retry func sends when the worker invokes it.
RetryRequest(func, res) ==
    IF func.name = "retry_release_car"
        THEN PatchAvailability(func.carUid, TRUE, res)
        ELSE DeletePayment(func.paymentUid, res)

\* The answers the upstream may give to the request of a retry func.
RetryAnswers(func) ==
    IF func.name = "retry_release_car" THEN ReleaseAnswers ELSE RefundAnswers

\* The worker awaits retry_release_car / retry_cancel_payment (main.py lines
\* 412-417, 424-427, 472-477): the closure sends its request and returns
\* whatever the status of the response is; it raises when the request raises.
retry_answer(w, res) ==
    /\ workers[w].pc = "func"
    /\ res \in RetryAnswers(task[workers[w].task_id].func)
    /\ answered' = [answered EXCEPT ![workers[w].task_id] = res]
    /\ IF res.raised THEN on_raise(w) ELSE on_return(w)
    /\ UNCHANGED backendVars

(***************************************************************************)
(* cancel_rental and finish_rental with the retry worker                   *)
(***************************************************************************)
\* The rental the requests of this specification name.
TheRental == "R1"

NextCancel ==
    \/ startup_event
    \/ Started /\ cancel_rental(TheRental)
    \/ \E res \in RentalLookupAnswers : cancel_lookup_answer(res)
    \/ \E res \in CancelAnswers : cancel_answer(res)
    \/ \E res \in ReleaseAnswers : cancel_release_answer(res)
    \/ \E res \in RefundAnswers : cancel_payment_answer(res)
    \/ Started /\ finish_rental(TheRental)
    \/ \E res \in RentalLookupAnswers : finish_lookup_answer(res)
    \/ \E res \in FinishAnswers : finish_answer(res)
    \/ \E res \in ReleaseAnswers : finish_release_answer(res)
    \/ \E w \in WorkerIds : process_queue_begin(w)
    \/ \E w \in WorkerIds : queue_get(w)
    \/ \E w \in WorkerIds : queue_timeout(w)
    \/ \E w \in WorkerIds : func_returns(w)
    \/ \E w \in WorkerIds : func_raises(w)
    \/ \E w \in WorkerIds : sleep_done(w)

SpecCancel == InitService /\ [][NextCancel]_vars

(***************************************************************************)
(* cancel_rental and finish_rental with the retry worker and the answers   *)
(* of the upstreams to the retried requests                                *)
(***************************************************************************)
NextCompensate ==
    \/ startup_event
    \/ Started /\ cancel_rental(TheRental)
    \/ \E res \in RentalLookupAnswers : cancel_lookup_answer(res)
    \/ \E res \in CancelAnswers : cancel_answer(res)
    \/ \E res \in ReleaseAnswers : cancel_release_answer(res)
    \/ \E res \in RefundAnswers : cancel_payment_answer(res)
    \/ Started /\ finish_rental(TheRental)
    \/ \E res \in RentalLookupAnswers : finish_lookup_answer(res)
    \/ \E res \in FinishAnswers : finish_answer(res)
    \/ \E res \in ReleaseAnswers : finish_release_answer(res)
    \/ \E w \in WorkerIds : process_queue_begin(w)
    \/ \E w \in WorkerIds : queue_get(w)
    \/ \E w \in WorkerIds : queue_timeout(w)
    \/ \E w \in WorkerIds, res \in ReleaseAnswers \cup RefundAnswers : retry_answer(w, res)
    \/ \E w \in WorkerIds : sleep_done(w)

SpecCompensate == InitService /\ [][NextCompensate]_vars

(***************************************************************************)
(* cancel_rental and finish_rental against the Rental and Payment services *)
(* (rental_service/main.py, payment_service/main.py)                       *)
(***************************************************************************)
\* Whether the upstream executed the request that was answered with res: yes
\* when it answered with a success status, no when it answered with an error
\* status (404 before any write), either when the request raised (a timeout
\* can follow the commit).
Reached(res) ==
    IF res.raised THEN BOOLEAN ELSE {res.status \in 200..299}

\* rental_service cancel_rental, lines 90-102: the row found, its status is set
\* whatever it was.
rental_service_cancel_rental(rows, rental_uid) ==
    [rows EXCEPT ![rental_uid] = "CANCELED"]

\* rental_service finish_rental, lines 105-117: the same with "FINISHED".
rental_service_finish_rental(rows, rental_uid) ==
    [rows EXCEPT ![rental_uid] = "FINISHED"]

\* payment_service cancel_payment, lines 42-50.
payment_service_cancel_payment(rows, payment_uid) ==
    [rows EXCEPT ![payment_uid] = "CANCELED"]

\* The Rental service answers the DELETE of cancel_rental.
cancel_served(res) ==
    /\ delete_rental_answer(res)
    /\ \E done \in Reached(res) :
          rental_status' = IF done
                             THEN rental_service_cancel_rental(rental_status, hd.rental_uid)
                             ELSE rental_status
    /\ UNCHANGED payment_status

\* The Rental service answers the POST of finish_rental.
finish_served(res) ==
    /\ post_finish_answer(res)
    /\ \E done \in Reached(res) :
          rental_status' = IF done
                             THEN rental_service_finish_rental(rental_status, hd.rental_uid)
                             ELSE rental_status
    /\ UNCHANGED payment_status

\* The Payment service answers the DELETE of cancel_rental.
refund_served(res) ==
    /\ delete_payment_answer(res)
    /\ \E done \in Reached(res) :
          payment_status' = IF done
                              THEN payment_service_cancel_payment(payment_status,
                                                                  hd.rentals[1].paymentUid)
                              ELSE payment_status
    /\ UNCHANGED rental_status

\* The upstream answers the request of a retry func the worker awaits.
retry_served(w, res) ==
    /\ workers[w].pc = "func"
    /\ res \in RetryAnswers(task[workers[w].task_id].func)
    /\ answered' = [answered EXCEPT ![workers[w].task_id] = res]
    /\ IF res.raised THEN on_raise(w) ELSE on_return(w)
    /\ LET func == task[workers[w].task_id].func IN
        \E done \in Reached(res) :
          payment_status' = IF done /\ func.name = "retry_cancel_payment"
                              THEN payment_service_cancel_payment(payment_status, func.paymentUid)
                              ELSE payment_status
    /\ UNCHANGED rental_status

\* Cancel and finish requests on one rental, one request at a time.
NextTerminal ==
    \/ startup_event
    \/ Started /\ cancel_rental(TheRental)
    \/ \E res \in RentalLookupAnswers : cancel_lookup_answer(res)
    \/ \E res \in CancelAnswers : cancel_served(res)
    \/ \E res \in ReleaseAnswers : cancel_release_answer(res)
    \/ \E res \in RefundAnswers : refund_served(res)
    \/ Started /\ finish_rental(TheRental)
    \/ \E res \in RentalLookupAnswers : finish_lookup_answer(res)
    \/ \E res \in FinishAnswers : finish_served(res)
    \/ \E res \in ReleaseAnswers : finish_release_answer(res)
    \/ \E w \in WorkerIds : process_queue_begin(w)
    \/ \E w \in WorkerIds : queue_get(w)
    \/ \E w \in WorkerIds : queue_timeout(w)
    \/ \E w \in WorkerIds, res \in ReleaseAnswers \cup RefundAnswers : retry_served(w, res)
    \/ \E w \in WorkerIds : sleep_done(w)

SpecTerminal == InitService /\ [][NextTerminal]_vars

(***************************************************************************)
(* CircuitBreakerManager and the breakers it holds                         *)
(***************************************************************************)
\* get_breaker(name, failure_threshold=5, timeout=60.0)
DefaultThreshold == 5
DefaultTimeout == 60

BreakerNames == {"cars_service", "rental_service", "payment_service"}

\* CircuitBreaker(failure_threshold, timeout, name); `id` is the identity of the object.
CircuitBreaker(id, threshold, time_out) ==
    [id |-> id, failure_threshold |-> threshold, timeout |-> time_out,
     stats |-> CircuitBreakerStats]

\* CircuitBreaker._should_attempt_reset of the breaker object `self`
should_attempt_reset(self) ==
    IF self.stats.last_failure_time = NoneTime
        THEN FALSE
        ELSE (now - self.stats.last_failure_time) >= self.timeout

\* CircuitBreaker._on_success of the breaker object `self`
on_success(self) ==
    [self EXCEPT !.stats.failures = 0,
                 !.stats.state = IF @ = "HALF_OPEN" THEN "CLOSED" ELSE @]

\* CircuitBreaker._on_failure of the breaker object `self`
on_failure(self) ==
    LET f == self.stats.failures + 1 IN
    [self EXCEPT !.stats.failures = f,
                 !.stats.last_failure_time = now,
                 !.stats.state = IF f >= self.failure_threshold THEN "OPEN" ELSE @]

\* CircuitBreaker.call on `self`, lines 29-37: the admission of the call.
admission(self) ==
    IF self.stats.state = "OPEN"
        THEN IF should_attempt_reset(self)
                 THEN [self |-> [self EXCEPT !.stats.state = "HALF_OPEN"], run |-> TRUE]
                 ELSE [self |-> self, run |-> FALSE]
        ELSE [self |-> self, run |-> TRUE]

\* CircuitBreaker.call on `self` by a caller no other call overlaps: the breaker
\* after the call and whether the action was run; `ok` says whether the action,
\* if run, returns (TRUE) or raises (FALSE).
call(self, ok) ==
    LET a == admission(self) IN
    IF a.run
        THEN [self |-> IF ok THEN on_success(a.self) ELSE on_failure(a.self), ran |-> TRUE]
        ELSE [self |-> a.self, ran |-> FALSE]

\* Mutant of registry: the breaker of the name is made anew at every call.
registry_renewing(name, threshold, time_out) ==
    [n \in DOMAIN breakers \cup {name} |->
        IF n = name
            THEN CircuitBreaker(Cardinality(DOMAIN breakers) + 1, threshold, time_out)
            ELSE breakers[n]]

\* CircuitBreakerManager.get_breaker, lines 91-96: self.breakers after the call.
registry(name, threshold, time_out) ==
    IF name \in DOMAIN breakers
        THEN breakers
        ELSE [n \in DOMAIN breakers \cup {name} |->
                 IF n = name
                     THEN CircuitBreaker(Cardinality(DOMAIN breakers) + 1, threshold, time_out)
                     ELSE breakers[n]]

\* CircuitBreakerManager.get_breaker
get_breaker(name, threshold, time_out) ==
    /\ breakers' = registry(name, threshold, time_out)
    /\ got' = breakers'[name].id
    /\ UNCHANGED <<hd, body, fetched>>
    /\ UNCHANGED <<breakerVars, sagaVars, retryVars, backendVars>>

\* A call through a breaker of the registry; `ok` says how its action ends.
breaker_call(name, ok) ==
    /\ name \in DOMAIN breakers
    /\ call_count < MaxCalls
    /\ call_count' = call_count + 1
    /\ breakers' = [breakers EXCEPT ![name] = call(@, ok).self]
    /\ UNCHANGED <<got, hd, body, fetched>>
    /\ UNCHANGED <<failure_threshold, timeout, stats, now, calls, last, consecutive_raises>>
    /\ UNCHANGED <<sagaVars, retryVars, backendVars>>

\* The names the registry is asked for in this specification.
TwoNames == {"cars_service", "rental_service"}

\* The parameters get_breaker is called with in this specification.
Params == {<<1, 1>>, <<MaxThreshold, MaxTimeout>>}

NextRegistry ==
    \/ \E name \in TwoNames, par \in Params : get_breaker(name, par[1], par[2])
    \/ \E name \in TwoNames, ok \in BOOLEAN : breaker_call(name, ok)
    \/ Tick

SpecRegistry == InitService /\ [][NextRegistry]_vars

(***************************************************************************)
(* The read handlers: get_cars, get_user_rentals, get_rental               *)
(***************************************************************************)
\* circuit_breaker_manager.get_breaker(name) followed by breaker.call(action,
\* fallback): the registry after the call and whether the action was run.
Through(name, ok) ==
    LET reg == registry(name, DefaultThreshold, DefaultTimeout) IN
    LET c == call(reg[name], ok) IN
    [breakers |-> [reg EXCEPT ![name] = c.self], ran |-> c.ran]

\* dict.get(key, default)
Get(dict, key, default) == IF key \in DOMAIN dict THEN dict[key] ELSE default

\* {}
EmptyDict == [k \in {} |-> ""]

Pages == {1, 2}

GetCars(page, res) == [op |-> "GET /cars", page |-> page, res |-> res]
GetRentals(res) == [op |-> "GET /rental", res |-> res]
GetPayment(payment_uid, res) ==
    [op |-> "GET /payment/{paymentUid}", paymentUid |-> payment_uid, res |-> res]

CarsAnswers == {Status(200), Status(500), RequestError}
RentalsAnswers == {Status(200), Status(500), RequestError}
GetPaymentAnswers == {Status(200), Status(500), RequestError}

\* cars_service get_cars: a car of the page.
ListedCar(car_uid) ==
    [carUid |-> car_uid, brand |-> "Mercedes Benz", model |-> "GLA 250",
     registrationNumber |-> "LO777X799", power |-> 249, price |-> 3500,
     type |-> "SEDAN", available |-> TRUE]

\* cars_service get_cars: the PaginationResponse for the page.
CarsPages(page) ==
    {[kind |-> "page", page |-> page, pageSize |-> 10, totalElements |-> Len(items),
      items |-> items] : items \in {<<>>, <<ListedCar("U1")>>}}

\* Mutant of fallback: the page has no items.
fallback_empty(page) ==
    [kind |-> "page", page |-> page, pageSize |-> 1, totalElements |-> 0, items |-> <<>>]

\* get_cars.fallback, lines 71-89: "Return default car when service is unavailable"
fallback(page) ==
    [kind |-> "page", page |-> page, pageSize |-> 1, totalElements |-> 1,
     items |-> <<ListedCar("109b42f3-198d-4c89-9276-a7520a7120ab")>>]

\* The handler returned a value: 200 with the body.
Ok == [status |-> 200, message |-> ""]

\* A read request arrives while no handler is active.
BeginRead(handler, pc, rental_uid, page) ==
    /\ cr.pc \in {"idle", "responded"}
    /\ hd.pc \in {"idle", "responded"}
    /\ request_count < MaxReads
    /\ request_count' = request_count + 1
    /\ hd' = [IdleHandler EXCEPT !.handler = handler, !.pc = pc,
                                 !.rental_uid = rental_uid, !.page = page,
                                 !.mark = Cardinality(DOMAIN task)]
    /\ cr' = IdleCreate
    /\ issued' = <<>>
    /\ response' = NoResponse
    /\ body' = NoBody

\* GET /api/v1/cars arrives (lines 55-60).
get_cars(page) ==
    /\ BeginRead("get_cars", "fetch_cars", "", page)
    /\ UNCHANGED <<car_info_cache, breakers, got, fetched>>
    /\ UNCHANGED <<breakerVars, retryVars, backendVars>>

\* lines 61-69, 91-92: fetch_cars through the cars breaker, with the fallback.
get_cars_answer(res, cars) ==
    /\ hd.handler = "get_cars" /\ hd.pc = "fetch_cars"
    /\ LET t == Through("cars_service", res = Status(200)) IN
        /\ breakers' = t.breakers
        /\ issued' = IF t.ran THEN Append(issued, GetCars(hd.page, res)) ELSE issued
        /\ body' = IF t.ran /\ res = Status(200) THEN cars ELSE fallback(hd.page)
    /\ Reply(Ok)
    /\ UNCHANGED <<car_info_cache, cr, request_count, got, fetched>>
    /\ UNCHANGED <<breakerVars, retryVars, backendVars>>

\* rental_service get_rentals_by_username: the lists of rentals of the user.
RentalLists == {<<>>, <<RentalOf("R1")>>, <<RentalOf("R2"), RentalOf("R1")>>}

\* payment_service get_payment: the PaymentResponse for payment_uid.
PaymentResponses(payment_uid) ==
    {[paymentUid |-> payment_uid, status |-> "CANCELED", price |-> MaxPrice]}

\* Mutant of car_fallback: the cache is not consulted.
car_fallback_uncached(rental) ==
    [carUid |-> rental.carUid, brand |-> "", model |-> "", registrationNumber |-> ""]

\* car_fallback (lines 231-236, 319-328): the cached descriptor if there is one.
car_fallback(rental) ==
    IF car_info_cache[rental.carUid] # NoCarInfo
        THEN car_info_cache[rental.carUid]
        ELSE [carUid |-> rental.carUid, brand |-> "", model |-> "",
              registrationNumber |-> ""]

\* payment_fallback (lines 251-252, 349-351)
payment_fallback(rental) ==
    [paymentUid |-> rental.paymentUid, status |-> "PAID", price |-> 0]

\* CarInfo(...) of the response (lines 262-267, 363-368)
CarInfo(car_data, rental) ==
    [carUid |-> Get(car_data, "carUid", rental.carUid),
     brand |-> Get(car_data, "brand", ""),
     model |-> Get(car_data, "model", ""),
     registrationNumber |-> Get(car_data, "registrationNumber", "")]

\* PaymentInfo(...) of the response (lines 268-272, 369-373)
PaymentInfo(payment_data, rental) ==
    [paymentUid |-> Get(payment_data, "paymentUid", rental.paymentUid),
     status |-> Get(payment_data, "status", "PAID"),
     price |-> Get(payment_data, "price", 0)]

\* RentalResponse(...) (lines 257-273, 358-374)
RentalResponse(rental, car, payment) ==
    [rentalUid |-> rental.rentalUid, status |-> rental.status, car |-> car,
     payment |-> payment]

\* fetch_car through the cars breaker with car_fallback (lines 213-239, 299-332):
\* the registry, the cache and the car block after the call.
FetchCar(rental, res, car_data) ==
    LET t == Through("cars_service", res = Status(200)) IN
    LET hit == t.ran /\ res = Status(200) IN
    [breakers |-> t.breakers,
     ran |-> t.ran,
     hit |-> hit,
     cache |-> IF hit THEN [car_info_cache EXCEPT ![rental.carUid] = CarInfoOf(car_data)]
                      ELSE car_info_cache,
     car |-> IF hit THEN CarInfo(car_data, rental) ELSE CarInfo(car_fallback(rental), rental)]

\* fetch_payment through the payment breaker with payment_fallback (lines
\* 242-255, 336-355): a response other than 200 makes fetch_payment return {}.
FetchPayment(rental, res, payment_data) ==
    LET t == Through("payment_service", ~res.raised) IN
    [breakers |-> t.breakers,
     ran |-> t.ran,
     payment |-> IF ~t.ran \/ res.raised THEN PaymentInfo(payment_fallback(rental), rental)
                 ELSE IF res.status = 200 THEN PaymentInfo(payment_data, rental)
                 ELSE PaymentInfo(EmptyDict, rental)]

\* GET /api/v1/rental arrives (lines 191-193).
get_user_rentals ==
    /\ BeginRead("get_user_rentals", "fetch_rentals", "", 0)
    /\ UNCHANGED <<car_info_cache, breakers, got, fetched>>
    /\ UNCHANGED <<breakerVars, retryVars, backendVars>>

\* Mutant of rentals_fallback: the fallback hands out a rental.
rentals_fallback_some == <<RentalOf("R1")>>

\* rentals_fallback, lines 203-204
rentals_fallback == <<>>

\* lines 193-211, 275: fetch_rentals through the rental breaker, with the fallback.
list_rentals_answer(res, rentals) ==
    /\ hd.handler = "get_user_rentals" /\ hd.pc = "fetch_rentals"
    /\ LET t == Through("rental_service", res = Status(200)) IN
       LET fetched_list == IF t.ran /\ res = Status(200) THEN rentals ELSE rentals_fallback IN
        /\ breakers' = t.breakers
        /\ issued' = IF t.ran THEN Append(issued, GetRentals(res)) ELSE issued
        /\ body' = [NoBody EXCEPT !.kind = "list"]
        /\ IF fetched_list = <<>>
             THEN Reply(Ok)
             ELSE /\ hd' = [hd EXCEPT !.pc = "fetch_car", !.rentals = fetched_list, !.i = 1]
                  /\ UNCHANGED response
    /\ UNCHANGED <<car_info_cache, cr, request_count, got, fetched>>
    /\ UNCHANGED <<breakerVars, retryVars, backendVars>>

\* lines 213-239: the car of the rental at hand.
list_car_answer(res, car_data) ==
    /\ hd.handler = "get_user_rentals" /\ hd.pc = "fetch_car"
    /\ LET f == FetchCar(hd.rentals[hd.i], res, car_data) IN
        /\ breakers' = f.breakers
        /\ issued' = IF f.ran THEN Append(issued, GetCar(hd.rentals[hd.i].carUid, res))
                              ELSE issued
        /\ car_info_cache' = f.cache
        /\ fetched' = IF f.hit THEN [fetched EXCEPT ![hd.rentals[hd.i].carUid] =
                                         CarInfoOf(car_data)]
                               ELSE fetched
        /\ hd' = [hd EXCEPT !.pc = "fetch_payment", !.car = f.car]
    /\ UNCHANGED <<cr, response, request_count, got, body>>
    /\ UNCHANGED <<breakerVars, retryVars, backendVars>>

\* lines 241-275: the payment of the rental at hand; the entry is appended and
\* the loop goes to the next rental or the list is returned.
list_payment_answer(res, payment_data) ==
    /\ hd.handler = "get_user_rentals" /\ hd.pc = "fetch_payment"
    /\ LET f == FetchPayment(hd.rentals[hd.i], res, payment_data) IN
        /\ breakers' = f.breakers
        /\ issued' = IF f.ran THEN Append(issued, GetPayment(hd.rentals[hd.i].paymentUid, res))
                              ELSE issued
        /\ body' = [body EXCEPT !.items =
                       Append(@, RentalResponse(hd.rentals[hd.i], hd.car, f.payment))]
    /\ IF hd.i < Len(hd.rentals)
         THEN hd' = [hd EXCEPT !.pc = "fetch_car", !.i = @ + 1] /\ UNCHANGED response
         ELSE Reply(Ok)
    /\ UNCHANGED <<car_info_cache, cr, request_count, got, fetched>>
    /\ UNCHANGED <<breakerVars, retryVars, backendVars>>

\* GET /api/v1/rental/{rentalUid} arrives (lines 278-282).
get_rental(rental_uid) ==
    /\ BeginRead("get_rental", "fetch_rental", rental_uid, 0)
    /\ UNCHANGED <<car_info_cache, breakers, got, fetched>>
    /\ UNCHANGED <<breakerVars, retryVars, backendVars>>

\* Mutant of fetch_rental_error: a 404 of the rental service is answered as its error.
fetch_rental_error_masked(res) ==
    IF res.raised THEN InternalServerError
    ELSE HTTPException(500, "Rental service error")

\* fetch_rental, lines 289-293, called without a fallback (line 296): what the
\* handler answers when the rental fetch does not return the rental.
fetch_rental_error(res) ==
    IF res.raised THEN InternalServerError
    ELSE IF res.status = 404 THEN HTTPException(404, "Rental not found")
    ELSE HTTPException(res.status, "Rental service error")

\* lines 283-296: fetch_rental through the rental breaker, without a fallback.
get_rental_answer(res) ==
    /\ hd.handler = "get_rental" /\ hd.pc = "fetch_rental"
    /\ LET t == Through("rental_service", res = Status(200)) IN
        /\ breakers' = t.breakers
        /\ issued' = IF t.ran THEN Append(issued, GetRental(hd.rental_uid, res)) ELSE issued
        /\ IF ~t.ran
             THEN \* Exception("Circuit breaker rental_service is OPEN")
                  Reply(InternalServerError)
           ELSE IF res # Status(200)
             THEN Reply(fetch_rental_error(res))
           ELSE /\ hd' = [hd EXCEPT !.pc = "fetch_car",
                                    !.rentals = <<RentalOf(hd.rental_uid)>>, !.i = 1]
                /\ UNCHANGED response
    /\ UNCHANGED <<car_info_cache, cr, request_count, got, body, fetched>>
    /\ UNCHANGED <<breakerVars, retryVars, backendVars>>

\* lines 299-332: the car of the rental.
get_car_answer(res, car_data) ==
    /\ hd.handler = "get_rental" /\ hd.pc = "fetch_car"
    /\ LET f == FetchCar(hd.rentals[1], res, car_data) IN
        /\ breakers' = f.breakers
        /\ issued' = IF f.ran THEN Append(issued, GetCar(hd.rentals[1].carUid, res))
                              ELSE issued
        /\ car_info_cache' = f.cache
        /\ fetched' = IF f.hit THEN [fetched EXCEPT ![hd.rentals[1].carUid] =
                                         CarInfoOf(car_data)]
                               ELSE fetched
        /\ hd' = [hd EXCEPT !.pc = "fetch_payment", !.car = f.car]
    /\ UNCHANGED <<cr, response, request_count, got, body>>
    /\ UNCHANGED <<breakerVars, retryVars, backendVars>>

\* lines 335-374: the payment of the rental; the RentalResponse is returned.
get_payment_answer(res, payment_data) ==
    /\ hd.handler = "get_rental" /\ hd.pc = "fetch_payment"
    /\ LET f == FetchPayment(hd.rentals[1], res, payment_data) IN
        /\ breakers' = f.breakers
        /\ issued' = IF f.ran THEN Append(issued, GetPayment(hd.rentals[1].paymentUid, res))
                              ELSE issued
        /\ body' = [NoBody EXCEPT !.kind = "rental",
                                  !.items = <<RentalResponse(hd.rentals[1], hd.car, f.payment)>>]
    /\ Reply(Ok)
    /\ UNCHANGED <<car_info_cache, cr, request_count, got, fetched>>
    /\ UNCHANGED <<breakerVars, retryVars, backendVars>>

\* Between two requests time.time() advances by the timeout of the gateway's breakers.
Elapse ==
    /\ cr.pc \in {"idle", "responded"}
    /\ hd.pc \in {"idle", "responded"}
    /\ now < DefaultTimeout * (MaxTimeout - 1)
    /\ now' = now + DefaultTimeout
    /\ UNCHANGED <<failure_threshold, timeout, stats, calls, last,
                   consecutive_raises, call_count>>
    /\ UNCHANGED <<sagaVars, retryVars, gatewayVars, backendVars>>

\* The versions of the car record the read handlers are answered with.
CarVersions(car_uid) == {c \in CarResponses(car_uid) : c.price = MaxPrice}

(***************************************************************************)
(* The read handlers with create_rental, one request at a time; the        *)
(* payment service rejects the payment of every create_rental, which ends  *)
(* the saga after its car fetch.                                           *)
(***************************************************************************)
NextReads ==
    \/ \E page \in Pages : get_cars(page)
    \/ \E res \in CarsAnswers : \E cars \in CarsPages(hd.page) : get_cars_answer(res, cars)
    \/ get_user_rentals
    \/ \E res \in RentalsAnswers, rentals \in RentalLists : list_rentals_answer(res, rentals)
    \/ \E res \in CarAnswers :
          \E car_data \in UNION {CarVersions(u) : u \in CarUids} :
              /\ hd.pc = "fetch_car"
              /\ car_data.carUid = hd.rentals[hd.i].carUid
              /\ list_car_answer(res, car_data)
    \/ \E res \in GetPaymentAnswers :
          \E payment_data \in UNION {PaymentResponses(p) : p \in PaymentUids} :
              /\ hd.pc = "fetch_payment"
              /\ payment_data.paymentUid = hd.rentals[hd.i].paymentUid
              /\ list_payment_answer(res, payment_data)
    \/ \E r \in RentalUids : get_rental(r)
    \/ \E res \in RentalLookupAnswers : get_rental_answer(res)
    \/ \E res \in CarAnswers :
          \E car_data \in UNION {CarVersions(u) : u \in CarUids} :
              /\ hd.pc = "fetch_car"
              /\ car_data.carUid = hd.rentals[hd.i].carUid
              /\ get_car_answer(res, car_data)
    \/ \E res \in GetPaymentAnswers :
          \E payment_data \in UNION {PaymentResponses(p) : p \in PaymentUids} :
              /\ hd.pc = "fetch_payment"
              /\ payment_data.paymentUid = hd.rentals[hd.i].paymentUid
              /\ get_payment_answer(res, payment_data)
    \/ \E u \in CarUids : create_rental(u, <<2023, 12, 31>>, <<2024, 2, 28>>)
    \/ \E res \in CarAnswers : \E car_data \in CarVersions(cr.car_uid) : car_answer(res, car_data)
    \/ payment_answer(Status(500), "P1")
    \/ Elapse

\* A breaker of the registry that has counted DefaultThreshold - 1 failures in
\* a row, the last of them now: the state get_breaker(name) is in after that
\* many requests through it failed.
Worn(id) ==
    [CircuitBreaker(id, DefaultThreshold, DefaultTimeout) EXCEPT
        !.stats.failures = DefaultThreshold - 1,
        !.stats.last_failure_time = 0]

\* The gateway before any request, or after requests that left the cars breaker
\* or the rental breaker one failure short of tripping.
InitReads ==
    /\ InitRetryQueue
    /\ InitBackend
    /\ car_info_cache = [u \in CarUids |-> NoCarInfo]
    /\ cr = IdleCreate
    /\ issued = <<>>
    /\ response = NoResponse
    /\ request_count = 0
    /\ breakers \in {<<>>} \cup {[n \in {name} |-> Worn(1)] :
                                  name \in {"cars_service", "rental_service"}}
    /\ got = 0
    /\ hd = IdleHandler
    /\ body = NoBody
    /\ fetched = [u \in CarUids |-> NoCarInfo]
    /\ failure_threshold = DefaultThreshold
    /\ timeout = DefaultTimeout
    /\ stats = CircuitBreakerStats
    /\ now = 0
    /\ calls = [c \in Callers |-> IdleCall]
    /\ last = Answer(FALSE, FALSE, "none")
    /\ consecutive_raises = 0
    /\ call_count = 0

SpecReads == InitReads /\ [][NextReads]_vars

(***************************************************************************)
(* The handlers that look one rental up: get_rental, cancel_rental and     *)
(* finish_rental, one request at a time                                    *)
(***************************************************************************)
NextLookup ==
    \/ \E r \in RentalUids : get_rental(r)
    \/ \E res \in RentalLookupAnswers : get_rental_answer(res)
    \/ \E res \in CarAnswers :
          \E car_data \in UNION {CarVersions(u) : u \in CarUids} :
              /\ hd.pc = "fetch_car"
              /\ car_data.carUid = hd.rentals[hd.i].carUid
              /\ get_car_answer(res, car_data)
    \/ \E res \in GetPaymentAnswers :
          \E payment_data \in UNION {PaymentResponses(p) : p \in PaymentUids} :
              /\ hd.pc = "fetch_payment"
              /\ payment_data.paymentUid = hd.rentals[hd.i].paymentUid
              /\ get_payment_answer(res, payment_data)
    \/ \E r \in RentalUids : cancel_rental(r)
    \/ \E res \in RentalLookupAnswers : cancel_lookup_answer(res)
    \/ \E res \in CancelAnswers : cancel_answer(res)
    \/ \E res \in ReleaseAnswers : cancel_release_answer(res)
    \/ \E res \in RefundAnswers : cancel_payment_answer(res)
    \/ \E r \in RentalUids : finish_rental(r)
    \/ \E res \in RentalLookupAnswers : finish_lookup_answer(res)
    \/ \E res \in FinishAnswers : finish_answer(res)
    \/ \E res \in ReleaseAnswers : finish_release_answer(res)
    \/ Elapse

SpecLookup == InitReads /\ [][NextLookup]_vars

(***************************************************************************)
(* All the handlers of the gateway, one request at a time                  *)
(***************************************************************************)
\* The lists of rentals the Rental service answers with in this specification.
OwnRentals == {<<>>, <<RentalOf(TheRental)>>}

NextGateway ==
    \/ get_cars(1)
    \/ \E res \in CarsAnswers : \E cars \in CarsPages(hd.page) : get_cars_answer(res, cars)
    \/ get_user_rentals
    \/ \E res \in RentalsAnswers, rentals \in OwnRentals : list_rentals_answer(res, rentals)
    \/ \E res \in CarAnswers :
          \E car_data \in UNION {CarVersions(u) : u \in CarUids} :
              /\ hd.pc = "fetch_car"
              /\ car_data.carUid = hd.rentals[hd.i].carUid
              /\ list_car_answer(res, car_data)
    \/ \E res \in GetPaymentAnswers :
          \E payment_data \in UNION {PaymentResponses(p) : p \in PaymentUids} :
              /\ hd.pc = "fetch_payment"
              /\ payment_data.paymentUid = hd.rentals[hd.i].paymentUid
              /\ list_payment_answer(res, payment_data)
    \/ get_rental(TheRental)
    \/ \E res \in RentalLookupAnswers : get_rental_answer(res)
    \/ \E res \in CarAnswers :
          \E car_data \in UNION {CarVersions(u) : u \in CarUids} :
              /\ hd.pc = "fetch_car"
              /\ car_data.carUid = hd.rentals[hd.i].carUid
              /\ get_car_answer(res, car_data)
    \/ \E res \in GetPaymentAnswers :
          \E payment_data \in UNION {PaymentResponses(p) : p \in PaymentUids} :
              /\ hd.pc = "fetch_payment"
              /\ payment_data.paymentUid = hd.rentals[hd.i].paymentUid
              /\ get_payment_answer(res, payment_data)
    \/ \E u \in CarUids : create_rental(u, <<2023, 12, 31>>, <<2024, 2, 28>>)
    \/ \E res \in CarAnswers : \E car_data \in CarVersions(cr.car_uid) : car_answer(res, car_data)
    \/ \E res \in PaymentAnswers : payment_answer(res, "P1")
    \/ \E res \in AvailabilityAnswers : reserve_answer(res)
    \/ \E res \in CancelPaymentAnswers : rollback_payment_answer(res)
    \/ \E res \in RentalAnswers : rental_answer(res)
    \/ \E res \in AvailabilityAnswers : release_answer(res)
    \/ \E res \in CancelPaymentAnswers : refund_answer(res)
    \/ cancel_rental(TheRental)
    \/ \E res \in RentalLookupAnswers : cancel_lookup_answer(res)
    \/ \E res \in CancelAnswers : cancel_answer(res)
    \/ \E res \in ReleaseAnswers : cancel_release_answer(res)
    \/ \E res \in RefundAnswers : cancel_payment_answer(res)
    \/ finish_rental(TheRental)
    \/ \E res \in RentalLookupAnswers : finish_lookup_answer(res)
    \/ \E res \in FinishAnswers : finish_answer(res)
    \/ \E res \in ReleaseAnswers : finish_release_answer(res)
    \/ Elapse

SpecGateway == InitReads /\ [][NextGateway]_vars

(***************************************************************************)
(* Claims about the circuit breaker                                        *)
(***************************************************************************)
ElapsedSinceFailure == now - stats.last_failure_time

\* C1 (breaker trip): with threshold k >= 1 and calls that do not overlap, between
\* calls the breaker is OPEN exactly when the last k or more actions run all
\* raised with no action returning in between (so not after fewer than k, and not
\* when a success interrupts the failures); and the call begun right after the
\* k-th consecutive failure, before `timeout` has elapsed since that failure,
\* starts no action.
C1_BreakerTrip ==
    /\ []((failure_threshold >= 1 /\ NoCallInFlight) =>
            (stats.state = "OPEN" <=> consecutive_raises >= failure_threshold))
    /\ [][\A c \in Callers, fb \in BOOLEAN :
            (/\ failure_threshold >= 1
             /\ consecutive_raises = failure_threshold
             /\ ElapsedSinceFailure < timeout
             /\ call_enter(c, fb))
            => (~last'.ran /\ calls'[c].pc = "idle" /\ NoCallInFlight')]_vars

\* C1 witness: threshold k >= 2, k actions raised in a row, the breaker is OPEN
\* and the (k+1)-th call was answered without running the action.
C1_Witness ==
    /\ failure_threshold >= 2
    /\ consecutive_raises = failure_threshold
    /\ call_count = failure_threshold + 1
    /\ stats.state = "OPEN"
    /\ ~last.ran /\ last.outcome \in {"fallback", "BreakerOpen"}

\* C2 (breaker recovery): with calls that do not overlap, a call begun while the
\* breaker is OPEN and at least `timeout` after last_failure_time runs the action
\* with the breaker HALF_OPEN; when that action returns the breaker is CLOSED with
\* failures = 0, and when it raises the breaker is OPEN with last_failure_time the
\* time of that failure.
C2_BreakerRecovery ==
    [][\A c \in Callers :
        /\ (/\ stats.state = "OPEN"
            /\ stats.last_failure_time # NoneTime
            /\ ElapsedSinceFailure >= timeout
            /\ \E fb \in BOOLEAN : call_enter(c, fb))
           => (calls'[c].pc = "action" /\ calls'[c].probe /\ stats'.state = "HALF_OPEN")
        /\ (calls[c].probe /\ action_returns(c))
           => (stats'.state = "CLOSED" /\ stats'.failures = 0)
        /\ (calls[c].probe /\ action_raises(c))
           => (stats'.state = "OPEN" /\ stats'.last_failure_time = now)]_vars

\* C2 witness: a HALF_OPEN probe, begun after a positive timeout had elapsed,
\* raised and left the breaker OPEN with last_failure_time = now.
C2_Witness ==
    /\ timeout >= 1
    /\ NoCallInFlight
    /\ last.ran /\ last.probe /\ last.outcome \in {"raised", "fallback"}
    /\ stats.state = "OPEN"
    /\ stats.last_failure_time = now

\* C3 (short-circuited calls leave the breaker untouched): in every call sequence,
\* overlapping calls included, a call begun while the breaker is OPEN and less than
\* `timeout` after last_failure_time does not run the action, yields the fallback's
\* result when a fallback is given and the breaker-open error otherwise, and leaves
\* state, failures and last_failure_time as they were.
C3_ShortCircuitFrame ==
    [][\A c \in Callers, fb \in BOOLEAN :
        (/\ stats.state = "OPEN"
         /\ stats.last_failure_time # NoneTime
         /\ ElapsedSinceFailure < timeout
         /\ call_enter(c, fb))
        => (/\ calls'[c].pc = "idle"
            /\ ~last'.ran
            /\ last'.outcome = IF fb THEN "fallback" ELSE "BreakerOpen"
            /\ stats' = stats)]_vars

\* C3 witness: a call was refused with the breaker-open error while another
\* caller's action is still in flight, and the breaker is OPEN with its counter at
\* the threshold.
C3_Witness ==
    /\ stats.state = "OPEN"
    /\ failure_threshold >= 1
    /\ stats.failures >= failure_threshold
    /\ \E c \in Callers : calls[c].pc = "action"
    /\ ~last.ran /\ last.outcome = "BreakerOpen"

(***************************************************************************)
(* Claims about create_rental                                              *)
(***************************************************************************)
Responded == cr.pc = "responded"

\* The positions in `issued` of the requests of one kind.
DeletesOfPayment ==
    {i \in DOMAIN issued : /\ issued[i].op = "DELETE /payment/{paymentUid}"
                           /\ issued[i].paymentUid = cr.payment_uid}
ReleasesOfCar ==
    {i \in DOMAIN issued : /\ issued[i].op = "PATCH /cars/{carUid}/availability"
                           /\ issued[i].carUid = cr.car_uid
                           /\ issued[i].available}
RentalPosts == {i \in DOMAIN issued : issued[i].op = "POST /rental"}
PaymentPosts == {i \in DOMAIN issued : issued[i].op = "POST /payment"}

Rejected(e) == ~e.res.raised /\ e.res.status # 200

\* The car fetch and the payment POST succeeded and the reservation was answered
\* with a status other than 200.
ReservationRejected ==
    /\ Len(issued) >= 3
    /\ issued[1].op = "GET /cars/{carUid}" /\ issued[1].res = Status(200)
    /\ issued[2].op = "POST /payment" /\ issued[2].res = Status(200)
    /\ issued[3].op = "PATCH /cars/{carUid}/availability"
    /\ ~issued[3].available
    /\ Rejected(issued[3])

\* Steps 1-4 succeeded and the rental POST was answered with a status other than 200.
RentalRejected ==
    /\ Len(issued) >= 4
    /\ issued[3].op = "PATCH /cars/{carUid}/availability"
    /\ issued[3].res = Status(200)
    /\ issued[4].op = "POST /rental"
    /\ Rejected(issued[4])

\* C4 as claimed (reservation rejected, S4): after a rejected reservation the
\* gateway has issued DELETE /payment/{paymentUid} exactly once, no rental POST,
\* and answers 500.
C4_ReservationRejected_AsClaimed ==
    (Responded /\ ReservationRejected) =>
        /\ Cardinality(DeletesOfPayment) = 1
        /\ RentalPosts = {}
        /\ response.status = 500

\* C4 as amended: after a rejected reservation the gateway has issued
\* DELETE /payment/{paymentUid} for the payment just created exactly once and no
\* rental POST; it answers 500, except that it answers 503 when that DELETE itself
\* raised a transport error.
C4_ReservationRejected ==
    (Responded /\ ReservationRejected) =>
        /\ Cardinality(DeletesOfPayment) = 1
        /\ Len(issued) = 4
        /\ issued[4] \in {DeletePayment(issued[4].paymentUid, res) : res \in CancelPaymentAnswers}
        /\ issued[4].paymentUid = cr.payment_uid
        /\ RentalPosts = {}
        /\ response.status = IF issued[4].res.raised THEN 503 ELSE 500

\* C4 witness: the reservation was rejected, the payment was rolled back with a
\* 204 and the client got 500 "Failed to reserve car".
C4_Witness ==
    /\ Responded /\ ReservationRejected
    /\ Len(issued) = 4
    /\ issued[4] = DeletePayment(cr.payment_uid, Status(204))
    /\ response = [status |-> 500, message |-> "Failed to reserve car"]

\* C5 as claimed (rental creation rejected): when steps 1-4 succeeded and the
\* rental POST is answered with a status other than 200, the gateway has issued
\* PATCH availability?available=true exactly once and DELETE /payment/{paymentUid}
\* exactly once when it answers the client.
C5_RentalRejected_AsClaimed ==
    (Responded /\ RentalRejected) =>
        /\ Cardinality(ReleasesOfCar) = 1
        /\ Cardinality(DeletesOfPayment) = 1

\* C6 as claimed (compensation before failure): whenever the payment POST
\* succeeded and the activation answers with a failure, DELETE
\* /payment/{paymentUid} has been issued exactly once before that answer.
C6_CompensationBeforeFailure_AsClaimed ==
    (/\ Responded
     /\ \E i \in PaymentPosts : issued[i].res = Status(200)
     /\ response.status # 200)
    => Cardinality(DeletesOfPayment) = 1

\* C7 (car not found, S2): when the car fetch is answered with a status other
\* than 200 the gateway answers 404, the car fetch is the only request it issued
\* (no payment, availability or rental call), and the step leaves car_info_cache
\* as it was.
C7_CarNotFound ==
    /\ []((/\ Responded
           /\ issued # <<>>
           /\ issued[1].op = "GET /cars/{carUid}"
           /\ Rejected(issued[1]))
          => (response.status = 404 /\ Len(issued) = 1))
    /\ [][\A res \in CarAnswers : \A car_data \in CarResponses(cr.car_uid) :
            (~res.raised /\ res.status # 200 /\ car_answer(res, car_data))
            => (car_info_cache' = car_info_cache /\ response'.status = 404)]_vars

\* C7 witness: a second request for a car that an earlier request cached was
\* answered 404 after the car fetch returned 404; the cached entry is still there.
C7_Witness ==
    /\ Responded
    /\ issued = <<GetCar(cr.car_uid, Status(404))>>
    /\ response = [status |-> 404, message |-> "Car not found"]
    /\ car_info_cache[cr.car_uid].carUid = cr.car_uid

\* C8 (transport failure): in every state, a request of the activation that
\* raised a transport error is the last request issued, the activation has
\* answered, and the answer is 503 with the message "Payment Service unavailable",
\* whichever upstream it was.
C8_TransportFailure ==
    \A i \in DOMAIN issued :
        issued[i].res.raised =>
            /\ i = Len(issued)
            /\ Responded
            /\ response = [status |-> 503, message |-> "Payment Service unavailable"]

\* C8 witness (S3): the payment POST raised; 503 was answered and no reservation
\* or rental call followed.
C8_Witness ==
    /\ Responded
    /\ Len(issued) = 2
    /\ issued[2].op = "POST /payment" /\ issued[2].res.raised
    /\ response.status = 503

\* The whole days between two calendar dates, counted day by day.
NextDay(d) ==
    IF d[3] < DaysInMonth(d[1], d[2]) THEN <<d[1], d[2], d[3] + 1>>
    ELSE IF d[2] < 12 THEN <<d[1], d[2] + 1, 1>>
    ELSE <<d[1] + 1, 1, 1>>

Earlier(a, b) ==
    \/ a[1] < b[1]
    \/ a[1] = b[1] /\ a[2] < b[2]
    \/ a[1] = b[1] /\ a[2] = b[2] /\ a[3] < b[3]

RECURSIVE DaysFromTo(_, _)
DaysFromTo(a, b) == IF a = b THEN 0 ELSE 1 + DaysFromTo(NextDay(a), b)

WholeDaysBetween(a, b) == IF Earlier(a, b) THEN DaysFromTo(a, b) ELSE DaysFromTo(b, a)

\* C9 (price): for ISO dates dateFrom and dateTo, in either order, the amount of
\* the payment POST is the number of whole days between them times the car's
\* price; and once the car was fetched the payment POST is issued, equal dates
\* (amount 0) included.
C9_Price ==
    (fromisoformat_ok(cr.date_from) /\ fromisoformat_ok(cr.date_to)) =>
        /\ \A i \in PaymentPosts :
               issued[i].price = WholeDaysBetween(cr.date_from, cr.date_to) * cr.price
        /\ (Responded /\ issued[1].res = Status(200))
               => (Len(issued) >= 2 /\ PaymentPosts = {2})
        /\ (cr.date_from = cr.date_to) => \A i \in PaymentPosts : issued[i].price = 0

\* C9 witness: dateFrom 2024-03-01 is the later date, dateTo 2024-02-28 lies across
\* the leap day, the car's price is positive and the payment POST carried twice it.
C9_Witness ==
    /\ cr.date_from = <<2024, 3, 1>>
    /\ cr.date_to = <<2024, 2, 28>>
    /\ cr.price >= 1
    /\ \E i \in PaymentPosts : issued[i].price = 2 * cr.price

(***************************************************************************)
(* Claims about the retry queue                                            *)
(***************************************************************************)
\* C10 (retry bound): for every task made by add_task, whatever its func does, the
\* func is invoked at most max_retries (5) times, retry_count never exceeds
\* max_retries, and the task is deleted from the task map at most once: it is out
\* of the map, deleted once, exactly when an invocation returned or retry_count
\* reached max_retries.
C10_RetryBound ==
    \A t \in DOMAIN task :
        /\ task[t].max_retries = 5
        /\ invocations[t] <= task[t].max_retries
        /\ task[t].retry_count <= task[t].max_retries
        /\ deletions[t] <= 1
        /\ (t \notin tasks) <=> (t \in succeeded \/ task[t].retry_count = task[t].max_retries)
        /\ (t \notin tasks) <=> (deletions[t] = 1)

\* C10 witness: one task was deleted after its fifth failed invocation and
\* another after an invocation that returned.
C10_Witness ==
    \E t, u \in DOMAIN task :
        /\ invocations[t] = 5 /\ task[t].retry_count = 5 /\ t \notin succeeded
        /\ deletions[t] = 1 /\ t \notin tasks
        /\ u \in succeeded /\ deletions[u] = 1 /\ u \notin tasks

(***************************************************************************)
(* Claims about cancel_rental and finish_rental                            *)
(***************************************************************************)
\* The retry tasks the current activation has submitted.
Submitted == {t \in DOMAIN task : t > hd.mark}

\* The retry task dropped after its last retry.
Exhausted(t) == task[t].retry_count >= task[t].max_retries

Success(res) == ~res.raised /\ res.status \in 200..299

\* The cancel_rental activation whose rental DELETE returned 204 and whose
\* in-line availability PATCH raised waits for the answer of the payment DELETE.
ReleaseRaised ==
    /\ hd.handler = "cancel_rental" /\ hd.pc = "cancel_payment"
    /\ issued[2].res = Status(204)
    /\ issued[3].res.raised

\* C11 as claimed: in that cancel, when the payment DELETE does not raise, the
\* gateway answers 204 and at that moment the task map holds exactly one task of
\* this cancel.
C11_ReleaseRetried_AsClaimed ==
    [][\A res \in RefundAnswers :
          (ReleaseRaised /\ ~res.raised /\ cancel_payment_answer(res))
          => (response'.status = 204 /\ Cardinality(Submitted' \cap tasks') = 1)]_vars

\* C11 (cancel with car-release transport failure): when the rental DELETE
\* returned 204, the in-line availability PATCH raised and the payment DELETE
\* does not raise, cancel answers 204 having submitted exactly one retry task,
\* the release-car retry for the rental's car; at the answer that task is in
\* the task map unless the worker, running during the payment DELETE, has
\* already finished with it (its func returned, or its retries are used up);
\* and whenever the worker runs a task and its func returns without raising,
\* the task is removed from the task map.
C11_ReleaseRetried ==
    /\ [][\A res \in RefundAnswers :
            (ReleaseRaised /\ ~res.raised /\ cancel_payment_answer(res))
            => LET t == hd.mark + 1 IN
               /\ response'.status = 204
               /\ Submitted' = {t}
               /\ task'[t].func = retry_release_car("cancel_rental", hd.rentals[1].carUid)
               /\ RetryRequest(task'[t].func, RequestError).op
                      = "PATCH /cars/{carUid}/availability"
               /\ (t \in tasks' \/ t \in succeeded' \/ Exhausted(t)')]_vars
    /\ [][\A w \in WorkerIds :
            func_returns(w) => workers[w].task_id \notin tasks']_vars

\* C11 witness: such a cancel answered 204; its release-car retry raised once
\* more, then returned, and is gone from the task map.
C11_Witness ==
    /\ hd.handler = "cancel_rental" /\ hd.pc = "responded"
    /\ response.status = 204
    /\ Len(issued) = 4
    /\ issued[3].res.raised /\ ~issued[4].res.raised
    /\ Submitted = {hd.mark + 1}
    /\ invocations[hd.mark + 1] >= 2
    /\ hd.mark + 1 \in succeeded
    /\ hd.mark + 1 \notin tasks

\* C12 (cancel response decided by the rental service alone): once the rental
\* lookup returned 200 and the rental DELETE was answered, the answer of cancel
\* is 204 exactly when the DELETE returned 204, whatever the compensation calls
\* do; when the DELETE raised or returned another status the answer is 500, no
\* compensation call was issued and no retry task submitted.
C12_CancelDecided ==
    (hd.handler = "cancel_rental" /\ Len(issued) >= 2)
    => /\ issued[1].res = Status(200)
       /\ hd.pc = "responded" =>
            (response.status = 204 <=> issued[2].res = Status(204))
       /\ issued[2].res # Status(204) =>
            /\ hd.pc = "responded"
            /\ response.status = 500
            /\ Len(issued) = 2
            /\ Submitted = {}

\* C12 witness: the rental DELETE returned 204, both compensation calls raised,
\* and cancel answered 204.
C12_Witness ==
    /\ hd.handler = "cancel_rental" /\ hd.pc = "responded"
    /\ Len(issued) = 4
    /\ issued[2].res = Status(204)
    /\ issued[3].res.raised /\ issued[4].res.raised
    /\ response.status = 204

\* The compensation calls the handler that answered 204 owes, as retry funcs.
Owed ==
    IF hd.handler = "cancel_rental"
        THEN {retry_release_car("cancel_rental", hd.rentals[1].carUid),
              retry_cancel_payment("cancel_rental", hd.rentals[1].paymentUid)}
        ELSE {retry_release_car("finish_rental", hd.rentals[1].carUid)}

\* The in-line call of the compensation was issued and answered with a success status.
DoneInline(func) ==
    \E i \in 1..Len(issued) :
        /\ issued[i].op = RetryRequest(func, RequestError).op
        /\ Success(issued[i].res)

\* The in-line call of the compensation was issued.
Attempted(func) ==
    \E i \in 1..Len(issued) : issued[i].op = RetryRequest(func, RequestError).op

\* C13 as claimed (failed compensations are handed to the retry queue): when
\* cancel or finish has answered 204, every compensation owed was attempted
\* in-line, and either its in-line call was answered with a success status or a
\* retry task for it has been submitted.
C13_CompensationRetried_AsClaimed ==
    (hd.handler \in {"cancel_rental", "finish_rental"}
       /\ hd.pc = "responded" /\ response.status = 204)
    => \A func \in Owed :
          /\ Attempted(func)
          /\ (DoneInline(func) \/ \E t \in Submitted : task[t].func = func)

\* C14 (finish does not refund): a finish_rental activation issues no DELETE of
\* a payment, in-line or through a retry task; the only compensation it issues
\* or hands to the retry queue is the PATCH that makes the car available.
C14_FinishNoRefund ==
    /\ hd.handler = "finish_rental" =>
          \A i \in 1..Len(issued) :
              /\ issued[i].op \in {"GET /rental/{rentalUid}",
                                   "POST /rental/{rentalUid}/finish",
                                   "PATCH /cars/{carUid}/availability"}
              /\ issued[i].op = "PATCH /cars/{carUid}/availability" =>
                    (issued[i].available /\ issued[i].carUid = hd.rentals[1].carUid)
    /\ \A t \in DOMAIN task :
          task[t].func.of = "finish_rental" =>
              RetryRequest(task[t].func, RequestError)
                  = PatchAvailability(task[t].func.carUid, TRUE, RequestError)

\* C14 witness: finish answered 204 after the PATCH raised; its retry task, a
\* release of the car, has been invoked by the worker.
C14_Witness ==
    /\ hd.handler = "finish_rental" /\ hd.pc = "responded"
    /\ response.status = 204
    /\ issued[3].res.raised
    /\ Submitted = {hd.mark + 1}
    /\ task[hd.mark + 1].func = retry_release_car("finish_rental", hd.rentals[1].carUid)
    /\ invocations[hd.mark + 1] >= 1

(***************************************************************************)
(* Claims about the read handlers                                          *)
(***************************************************************************)
\* The step in which get_user_rentals or get_rental obtains the car of the
\* rental at hand, from the fetch or from car_fallback.
CarStep ==
    /\ hd.handler \in {"get_user_rentals", "get_rental"}
    /\ hd.pc = "fetch_car"
    /\ hd'.pc = "fetch_payment"

\* The step in which they obtain its payment.
PaymentStep ==
    /\ hd.handler \in {"get_user_rentals", "get_rental"}
    /\ hd.pc = "fetch_payment"
    /\ hd'.pc # "fetch_payment"

\* In this step the upstream was asked and answered 200.
Fetched200 ==
    /\ Len(issued') = Len(issued) + 1
    /\ issued'[Len(issued')].res = Status(200)

\* car_fallback's answer when nothing is cached.
EmptyDescriptor(car_uid) ==
    [carUid |-> car_uid, brand |-> "", model |-> "", registrationNumber |-> ""]

\* The rental the handler is at.
Current == hd.rentals[hd.i]

CarsNotServed ==
    /\ hd.handler = "get_cars" /\ hd.pc = "responded"
    /\ (issued = <<>> \/ issued[1].res # Status(200))

\* C16 as claimed: when the car list cannot be served by the Cars service, the
\* gateway answers 200 with a page without items.
C16_CarListFallback_AsClaimed ==
    CarsNotServed => (response.status = 200 /\ body.items = <<>>)

\* C16 (car list fallback): when the car list cannot be served by the Cars
\* service (the fetch fails or the cars breaker is OPEN), the gateway answers
\* 200 with the default page: the requested page number, pageSize 1,
\* totalElements 1 and one item, the default car 109b42f3-... (Mercedes Benz
\* GLA 250).
C16_CarListFallback ==
    CarsNotServed
    => /\ response.status = 200
       /\ body.page = hd.page
       /\ body.pageSize = 1
       /\ body.totalElements = 1
       /\ Len(body.items) = 1
       /\ body.items[1].carUid = "109b42f3-198d-4c89-9276-a7520a7120ab"
       /\ body.items[1].brand = "Mercedes Benz"
       /\ body.items[1].model = "GLA 250"
       /\ body.items[1].available

\* C16 witness: the cars breaker is OPEN, get_cars asked nothing and answered 200.
C16_Witness ==
    /\ CarsNotServed
    /\ issued = <<>>
    /\ breakers["cars_service"].stats.state = "OPEN"
    /\ response.status = 200

\* C17 (list rentals tolerates partial failure): get_user_rentals always answers
\* 200; with the empty list when the rental fetch fails or the rental breaker is
\* OPEN; otherwise with one entry per rental, in order, whose car block is the
\* fetched car or, when the car fetch fails or the cars breaker is OPEN, the
\* cached descriptor or else the empty descriptor with the rental's carUid, and
\* whose payment block is the fetched payment or, on failure, {paymentUid,
\* PAID, 0}.
C17_ListTolerates ==
    /\ [](hd.handler = "get_user_rentals" /\ hd.pc = "responded"
            => /\ response.status = 200
               /\ body.kind = "list"
               /\ (issued = <<>> \/ issued[1].res # Status(200)) => body.items = <<>>
               /\ Len(body.items) = Len(hd.rentals)
               /\ \A k \in 1..Len(hd.rentals) :
                     /\ body.items[k].rentalUid = hd.rentals[k].rentalUid
                     /\ body.items[k].car.carUid = hd.rentals[k].carUid
                     /\ body.items[k].payment.paymentUid = hd.rentals[k].paymentUid)
    /\ [][(hd.handler = "get_user_rentals" /\ CarStep)
            => IF Fetched200
                 THEN \E c \in CarResponses(Current.carUid) : hd'.car = CarInfoOf(c)
               ELSE IF car_info_cache[Current.carUid] # NoCarInfo
                 THEN hd'.car = car_info_cache[Current.carUid]
               ELSE hd'.car = EmptyDescriptor(Current.carUid)]_vars
    /\ [][(hd.handler = "get_user_rentals" /\ PaymentStep)
            => /\ body'.items = Append(body.items, body'.items[Len(body'.items)])
               /\ body'.items[Len(body'.items)].car = hd.car
               /\ body'.items[Len(body'.items)].payment \in
                     IF Fetched200
                         THEN PaymentResponses(Current.paymentUid)
                         ELSE {[paymentUid |-> Current.paymentUid, status |-> "PAID",
                                price |-> 0]}]_vars

\* C17 witness: a list of two rentals was answered although the cars breaker
\* tripped on the first; the first entry has the empty descriptor and the
\* fallback payment, the second the cached car and the fetched payment.
C17_Witness ==
    /\ hd.handler = "get_user_rentals" /\ hd.pc = "responded"
    /\ Len(body.items) = 2
    /\ breakers["cars_service"].stats.state = "OPEN"
    /\ body.items[1].car = EmptyDescriptor("U2")
    /\ body.items[1].payment = [paymentUid |-> "P2", status |-> "PAID", price |-> 0]
    /\ body.items[2].car.brand = "Mercedes Benz"
    /\ body.items[2].payment.status = "CANCELED"

\* C18 (NotFound is never masked): when the rental service answers 404 to the
\* rental lookup of get_rental, cancel_rental or finish_rental, the gateway
\* answers 404 without a body and issues no further upstream request (no car,
\* payment, cancel, finish or compensation call) and submits no retry task.
C18_NotFound ==
    (/\ hd.handler \in {"get_rental", "cancel_rental", "finish_rental"}
     /\ Len(issued) >= 1
     /\ issued[1].res = Status(404))
    => /\ issued[1].op = "GET /rental/{rentalUid}"
       /\ hd.pc = "responded"
       /\ response.status = 404
       /\ body = NoBody
       /\ Len(issued) = 1
       /\ Submitted = {}

\* C18 witness: get_rental was answered 404 by the rental service, which tripped
\* the rental breaker, and the gateway answered 404.
C18_Witness ==
    /\ hd.handler = "get_rental" /\ hd.pc = "responded"
    /\ Len(issued) = 1 /\ issued[1].res = Status(404)
    /\ breakers["rental_service"].stats.state = "OPEN"
    /\ response = HTTPException(404, "Rental not found")

(***************************************************************************)
(* Claims about the breaker registry                                       *)
(***************************************************************************)
\* C19 (breaker registry): the first get_breaker for a name makes a breaker
\* with the parameters supplied, CLOSED and without failures, and returns it;
\* every later get_breaker for that name returns the same breaker, with its
\* original parameters and its accumulated state, whatever parameters are
\* supplied; no call changes the breaker of another name, and distinct names
\* have distinct breakers.
C19_Registry ==
    /\ [][\A name \in TwoNames, par \in Params :
            get_breaker(name, par[1], par[2])
            => LET k == par[1]
                   t == par[2] IN
               /\ got' = breakers'[name].id
               /\ \A n \in DOMAIN breakers : breakers'[n] = breakers[n]
               /\ name \notin DOMAIN breakers =>
                     /\ DOMAIN breakers' = DOMAIN breakers \cup {name}
                     /\ breakers'[name].failure_threshold = k
                     /\ breakers'[name].timeout = t
                     /\ breakers'[name].stats = CircuitBreakerStats
                     /\ \A n \in DOMAIN breakers : breakers[n].id # got']_vars
    /\ [](\A n1, n2 \in DOMAIN breakers : n1 # n2 => breakers[n1].id # breakers[n2].id)

\* C19 witness: the cars breaker, made first with threshold 1, tripped; a second
\* breaker was made; get_breaker then returned the cars breaker again, still
\* OPEN and with threshold 1.
C19_Witness ==
    /\ DOMAIN breakers = {"cars_service", "rental_service"}
    /\ breakers["cars_service"].id = 1
    /\ breakers["rental_service"].failure_threshold = 2
    /\ breakers["cars_service"].failure_threshold = 1
    /\ breakers["cars_service"].stats.state = "OPEN"
    /\ breakers["rental_service"].stats.failures = 1
    /\ got = 1

(***************************************************************************)
(* Claims about the circuit breaker under interleaving                     *)
(***************************************************************************)
\* C20 as claimed (a successful call closes the breaker in any state, also under
\* interleaving): whenever an action run through the breaker returns normally,
\* the breaker ends that call with failures = 0 and state = CLOSED.
C20_SuccessCloses_AsClaimed ==
    [][\A c \in Callers :
          action_returns(c) => (stats'.failures = 0 /\ stats'.state = "CLOSED")]_vars

(***************************************************************************)
(* Claims about the breaker shared by overlapping calls                    *)
(***************************************************************************)
\* C21 (a failed probe re-opens the breaker, as claimed): with handlers that share
\* one breaker and interleave at the awaited action, a call whose action raises
\* while the breaker is HALF_OPEN leaves the breaker OPEN with last_failure_time
\* the time of that failure, and no call whose action raised leaves the breaker
\* HALF_OPEN.
C21_FailedProbeReopens_AsClaimed ==
    [][\A c \in Callers :
        /\ (stats.state = "HALF_OPEN" /\ action_raises(c))
           => (stats'.state = "OPEN" /\ stats'.last_failure_time = now)
        /\ action_raises(c) => stats'.state # "HALF_OPEN"]_vars

\* C22 (breaker state invariant): in every reachable state of a breaker, state is
\* one of CLOSED, OPEN, HALF_OPEN, failures is a non-negative integer, and an OPEN
\* breaker has its last_failure_time set.
C22_BreakerState ==
    /\ stats.state \in {"CLOSED", "OPEN", "HALF_OPEN"}
    /\ stats.failures \in Nat
    /\ stats.state = "OPEN" => stats.last_failure_time # NoneTime

\* C22 witness: the breaker is OPEN with its counter back at 0 (an action begun
\* before the trip returned after it), a state no sequence of calls that do not
\* overlap reaches.
C22_Witness ==
    /\ failure_threshold >= 1
    /\ stats.state = "OPEN"
    /\ stats.failures = 0
    /\ stats.last_failure_time # NoneTime
    /\ NoCallInFlight

(***************************************************************************)
(* Claims about the breakers of the read handlers                          *)
(***************************************************************************)
ReadHandlers == {"get_cars", "get_user_rentals", "get_rental"}

\* The breaker a read handler sends the request through.
Upstream(op) ==
    IF op \in {"GET /cars", "GET /cars/{carUid}"} THEN "cars_service"
    ELSE IF op \in {"GET /rental", "GET /rental/{rentalUid}"} THEN "rental_service"
    ELSE "payment_service"

\* The breaker of the name as get_breaker(name) hands it out now.
BreakerOf(name) == registry(name, DefaultThreshold, DefaultTimeout)[name]

\* C23 (non-2xx responses trip breakers like transport errors, as claimed): on
\* every breaker-guarded read call of the gateway (car list, car fetch, rental
\* list, single-rental fetch, payment fetch) an upstream response with a status
\* outside 2xx is counted as a failure of that upstream's breaker: failures goes
\* up by one, last_failure_time is the time of the call, and the breaker is OPEN
\* once failures has reached failure_threshold.
C23_NonSuccessTrips_AsClaimed ==
    [][(/\ hd.handler \in ReadHandlers
        /\ Len(issued') = Len(issued) + 1
        /\ ~issued'[Len(issued')].res.raised
        /\ ~Success(issued'[Len(issued')].res))
       => LET name == Upstream(issued'[Len(issued')].op)
              before == BreakerOf(name)
              after == breakers'[name]
          IN /\ after.stats.failures = before.stats.failures + 1
             /\ after.stats.last_failure_time = now
             /\ after.stats.failures >= after.failure_threshold
                    => after.stats.state = "OPEN"]_vars

(***************************************************************************)
(* Claims about the worker of the retry queue                              *)
(***************************************************************************)
\* C24 (retry liveness): under a worker that is scheduled fairly, every task
\* that is in the task map while the worker is running is eventually deleted
\* from the map, however its func and the funcs of the other tasks end, unless
\* the worker is stopped first.
C24_RetryLiveness ==
    \A t \in TaskIds : (t \in tasks /\ is_running) ~> (t \notin tasks \/ ~is_running)

\* C24 witness: with the worker running, a task was deleted after invocations
\* that raised and a last one that returned, while another task that has failed
\* already is still in the map.
C24_Witness ==
    /\ is_running
    /\ \E t, u \in DOMAIN task :
        /\ t \notin tasks /\ t \in succeeded /\ task[t].retry_count >= 1
        /\ u \in tasks /\ task[u].retry_count >= 1

\* The worker coroutine w is in its loop: it waits on the queue, awaits a func
\* or sleeps before a retry.
Consuming(w) == workers[w].pc \in {"get", "func", "sleep"}

\* C25 (single consumer, as claimed): for every sequence of start() and stop()
\* calls, start called twice before the worker has run and stop followed by
\* start while the old worker still waits on the queue included, at most one
\* worker loop consumes the queue at any time.
C25_SingleConsumer_AsClaimed ==
    Cardinality({w \in WorkerIds : Consuming(w)}) <= 1

\* C26 (cooperative stop, as claimed): once stop() has been called and start()
\* is not called after it, the worker is eventually out of its loop for good (and
\* so begins no invocation after the iteration it was in), stop() called right
\* after start(), before the worker coroutine has run its first step, included.
C26_CooperativeStop_AsClaimed ==
    <>[](stopped => \A w \in WorkerIds : workers[w].pc \in {"none", "exited"})

\* The number of times task_id occurs in the queue q.
RECURSIVE Occurrences(_, _)
Occurrences(q, task_id) ==
    IF q = <<>> THEN 0
    ELSE (IF Head(q) = task_id THEN 1 ELSE 0) + Occurrences(Tail(q), task_id)

\* The workers that hold task_id: they await its func or sleep before its retry.
Processing(task_id) ==
    {w \in WorkerIds : workers[w].pc \in {"func", "sleep"} /\ workers[w].task_id = task_id}

\* C29 (retry queue consistency): with a single worker and add_task calls at any
\* point of its run, every task id occurs at most once in the queue; every task
\* in the task map is either queued once and not held by the worker, or held by
\* the worker and not queued; and only ids of tasks in the map are queued or
\* held, so no func is invoked for a deleted task.
C29_QueueConsistent ==
    /\ \A t \in TaskIds : Occurrences(queue, t) <= 1
    /\ \A t \in tasks :
        \/ Occurrences(queue, t) = 1 /\ Processing(t) = {}
        \/ Occurrences(queue, t) = 0 /\ Cardinality(Processing(t)) = 1
    /\ \A t \in TaskIds : (Occurrences(queue, t) > 0 \/ Processing(t) # {}) => t \in tasks

\* C29 witness: the worker sleeps before the retry of a task whose func raised
\* while a task added during that invocation waits in the queue.
C29_Witness ==
    \E t, u \in tasks :
        /\ t # u
        /\ \E w \in WorkerIds : workers[w].pc = "sleep" /\ workers[w].task_id = t
        /\ task[t].retry_count >= 1
        /\ queue = <<u>>

(***************************************************************************)
(* Claims about the retried compensations                                  *)
(***************************************************************************)
\* C30 (a retried compensation is reported done only when it took effect, as
\* claimed): a release-car or cancel-payment retry task is deleted as completed
\* successfully only if the upstream answered the retried PATCH / DELETE with a
\* success status, the answer with which the car is available (the payment
\* CANCELED) at the backend.
C30_RetryTookEffect_AsClaimed ==
    \A t \in succeeded : Success(answered[t])

(***************************************************************************)
(* Claims about what the handlers leave alone                              *)
(***************************************************************************)
\* C27 (car cache frame): the cache entry of a carUid changes only in a step in
\* which a car fetch for that carUid was answered 200, and the entry written is
\* the descriptor of that response; a failed car fetch, a short-circuited call,
\* a fallback lookup and every other operation of the gateway (car list, cancel,
\* finish, the other requests of create_rental) leave the cache as it was, and
\* no step removes an entry.
C27_CacheFrame ==
    [][\A u \in CarUids :
        /\ car_info_cache'[u] # car_info_cache[u]
           => /\ Len(issued') = Len(issued) + 1
              /\ issued'[Len(issued')] = GetCar(u, Status(200))
              /\ car_info_cache'[u] = fetched'[u]
              /\ car_info_cache'[u].carUid = u
        /\ car_info_cache[u] # NoCarInfo => car_info_cache'[u] # NoCarInfo]_vars

\* C27 witness: a cancel_rental was answered 204 after an earlier request had
\* cached the car of the rental, and the entry is still there.
C27_Witness ==
    /\ hd.handler = "cancel_rental" /\ hd.pc = "responded"
    /\ response = NoContent
    /\ car_info_cache[hd.rentals[1].carUid] # NoCarInfo
    /\ car_info_cache[hd.rentals[1].carUid] = fetched[hd.rentals[1].carUid]

\* An activation of create_rental, cancel_rental or finish_rental is under way.
WriteActive(create, handler) ==
    \/ create.pc \notin {"idle", "responded"}
    \/ /\ handler.handler \in {"cancel_rental", "finish_rental"}
       /\ handler.pc \notin {"idle", "responded"}

\* C28 (the write paths bypass the breakers): every step of create_rental,
\* cancel_rental and finish_rental sends its upstream request whatever the state
\* of the breakers, an OPEN breaker of that upstream included, and no step of
\* these handlers, however the request is answered, changes the state, the
\* failure counter or the last_failure_time of any breaker.
C28_WritesBypass ==
    [][/\ WriteActive(cr, hd) => Len(issued') = Len(issued) + 1
       /\ (WriteActive(cr, hd) \/ WriteActive(cr', hd')) => breakers' = breakers]_vars

\* C28 witness: cancel_rental looked the rental up, cancelled it and answered
\* 204 while the breaker of the Rental service was OPEN.
C28_Witness ==
    /\ "rental_service" \in DOMAIN breakers
    /\ breakers["rental_service"].stats.state = "OPEN"
    /\ hd.handler = "cancel_rental" /\ hd.pc = "responded"
    /\ response = NoContent
    /\ Len(issued) = 4
    /\ issued[1] = GetRental(hd.rental_uid, Status(200))

(***************************************************************************)
(* Claims about the HALF_OPEN probe and the terminal rental states         *)
(***************************************************************************)
\* C32 (single half-open probe, as claimed): with handlers sharing one breaker,
\* a call that arrives while the breaker is HALF_OPEN and the action of the
\* probe is still awaited does not run its action, so that while the breaker is
\* HALF_OPEN at most one action is in flight.
C32_SingleProbe_AsClaimed ==
    [][\A c \in Callers, fb \in BOOLEAN :
        (/\ stats.state = "HALF_OPEN"
         /\ \E d \in Callers \ {c} : calls[d].pc = "action" /\ calls[d].probe
         /\ call_enter(c, fb))
        => calls'[c].pc # "action"]_vars

\* C31 (terminal rental states stay terminal, as claimed): over cancel and finish
\* requests through the gateway on one rental, a rental that is FINISHED never
\* becomes CANCELED and its payment is not canceled from then on, a rental that
\* is CANCELED never becomes FINISHED, and a cancel or finish request goes on to
\* its compensation calls (the release of the car, the DELETE of the payment)
\* only on a rental that was IN_PROGRESS when its DELETE / POST finish was sent.
C31_TerminalStates_AsClaimed ==
    [][\A r \in RentalUids :
        /\ rental_status[r] = "FINISHED"
           => /\ rental_status'[r] # "CANCELED"
              /\ payment_status'[RentalOf(r).paymentUid] = "CANCELED"
                 => payment_status[RentalOf(r).paymentUid] = "CANCELED"
        /\ rental_status[r] = "CANCELED" => rental_status'[r] # "FINISHED"
        /\ (/\ hd.handler \in {"cancel_rental", "finish_rental"}
            /\ hd.rental_uid = r
            /\ hd.pc \in {"cancel", "finish"}
            /\ hd'.pc = "release_car")
           => rental_status[r] = "IN_PROGRESS"]_vars

====
